---------------------------- MODULE Spec2Model ----------------------------
(***************************************************************************)
(* Model of the coinbase-v3 client (src/src/client.rs):                    *)
(*   - the dual-shape response decoder CbClient::unpack_response,          *)
(*   - the paginated streams list_accounts, list_orders and list_fills,    *)
(*     each a try_stream! generator that the consumer drives by polling.   *)
(* and of its OAuth2 token store (src/src/basic_oauth.rs):                 *)
(*   - OAuthCbClient: new, add_scope, authorize_once, revoke_access and    *)
(*     access_token, with the CbClient that borrows it.                    *)
(* One behaviour of Spec follows one stream from its creation to its end,  *)
(* on a token store already authorized; one behaviour of AuthSpec follows  *)
(* one OAuthCbClient from its construction to its end.  ConsumedSpec is    *)
(* Spec with a consumer that polls the stream until it ends.  One          *)
(* behaviour of CallSpec is one call of a single-request operation or of a *)
(* pure function of the client (get, post, get_product, list_products,     *)
(* get_transactions_summary, the query builders, the enum conversions) on  *)
(* one input.                                                              *)
(***************************************************************************)
EXTENDS Integers, Sequences, FiniteSets, TLC

(***************************************************************************)
(* Bounds of the model.                                                    *)
(***************************************************************************)
\* Highest number of requests one stream is followed for.
MaxPages == 3
\* Highest number of authorize_once calls one OAuthCbClient is followed for.
MaxAuthorizations == 2
\* Highest number of failed accepts the listener of one call is followed for.
MaxAcceptErrors == 1
\* Highest number of revoke_access calls one OAuthCbClient is followed for.
MaxRevocations == 1
\* Highest number of requests a CbClient is followed for in the OAuth2 flow.
MaxBearers == 1

(***************************************************************************)
(* Option<T>: None is the empty sequence, Some(x) the one-element one.     *)
(***************************************************************************)
None == << >>
Some(x) == << x >>
IsSome(o) == Len(o) = 1

(***************************************************************************)
(* ToString for the integers the client puts in a query (i32 / i64).       *)
(***************************************************************************)
Digit(d) == CASE d = 0 -> "0" [] d = 1 -> "1" [] d = 2 -> "2" [] d = 3 -> "3"
              [] d = 4 -> "4" [] d = 5 -> "5" [] d = 6 -> "6" [] d = 7 -> "7"
              [] d = 8 -> "8" [] d = 9 -> "9"

RECURSIVE NatToString(_)
NatToString(n) == IF n < 10 THEN Digit(n)
                  ELSE NatToString(n \div 10) \o Digit(n % 10)

IntToString(n) == IF n < 0 THEN "-" \o NatToString(0 - n) ELSE NatToString(n)

(***************************************************************************)
(* Response bodies.  A body is the text of an HTTP response.  The model    *)
(* keeps what serde_json reads from it: whether the text is a JSON object, *)
(* which members the object has, which of them hold a value of a JSON type *)
(* no schema accepts for that member, and the values of the well-typed     *)
(* members.  Members are written in the order of DocOrder.                 *)
(***************************************************************************)
DocOrder == << "accounts", "orders", "fills", "sequence", "has_next", "cursor",
               "size", "error", "code", "message", "details" >>

\* The structs the bodies are decoded into, as their members in declaration order.
AccountsResponse == << "accounts", "has_next", "cursor", "size" >>
OrdersResponse == << "orders", "sequence", "has_next", "cursor" >>
FillsResponse == << "fills", "cursor" >>
CbRequestError == << "error", "code", "message", "details" >>

Range(s) == { s[i] : i \in 1..Len(s) }

\* Whether sequence s holds x.
Holds(s, x) == \E i \in 1..Len(s) : s[i] = x

\* The first element of sequence s that is in set S (s has one).
FirstIn(s, S) == s[CHOOSE i \in 1..Len(s) :
                     s[i] \in S /\ \A j \in 1..(i - 1) : s[j] \notin S]

Ok(v) == [tag |-> "Ok", val |-> v]
Err(e) == [tag |-> "Err", err |-> e]
IsOk(r) == r.tag = "Ok"

\* serde_json's failure reading a body against a schema.
SyntaxError == [kind |-> "syntax", member |-> ""]
InvalidType(m) == [kind |-> "invalid type", member |-> m]
MissingField(m) == [kind |-> "missing field", member |-> m]

(***************************************************************************)
(* Product and the responses of the calls that are no streams.  Of a       *)
(* Product body the model keeps the product id and the four members read   *)
(* by deserialize_bigdecimal_stable, each as the JSON value the body holds *)
(* for it; the other members are present and well-typed.                   *)
(***************************************************************************)
Product == << "product_id", "price", "price_percentage_change_24h", "volume_24h",
              "volume_percentage_change_24h" >>
ProductsResponse == << "products", "num_products" >>
TransactionsSummary == << "total_volume", "total_fees", "fee_tier", "margin_rate",
                          "goods_and_services_tax", "advanced_trade_only_volume",
                          "advanced_trade_only_fees", "coinbase_pro_volume",
                          "coinbase_pro_fees" >>

\* The members a struct declares as Option<..>: serde gives None to one
\* the body does not have.
OptionalMembers(schema) ==
    IF schema = TransactionsSummary THEN { "margin_rate", "goods_and_services_tax" }
    ELSE {}

\* The members of Product under
\* #[serde(default, deserialize_with = "deserialize_bigdecimal_stable")].
StableDecimals == << "price", "price_percentage_change_24h", "volume_24h",
                     "volume_percentage_change_24h" >>

\* What a body can hold for a member: nothing, null, a string, a number.
Missing == [type |-> "missing", text |-> ""]
JsonNull == [type |-> "null", text |-> ""]
JsonString(s) == [type |-> "string", text |-> s]
JsonNumber(s) == [type |-> "number", text |-> s]

\* BigDecimal: an integer and the number of its digits after the point.
BigDecimal(int_val, scale) == [int_val |-> int_val, scale |-> scale]

\* BigDecimal::from_str on the texts the bodies followed hold.
BigDecimal_from_str(text) ==
    CASE text = "6" -> Ok(BigDecimal(6, 0))
      [] text = "-99.4" -> Ok(BigDecimal(-994, 1))
      [] text = "0.00000001" -> Ok(BigDecimal(1, 8))
      [] text = "9%" -> Err("invalid digit")
      [] text = "1,000" -> Err("invalid digit")
      [] text = "" -> Err("empty")

\* String::deserialize on a JSON value: only a string is one.
String_deserialize(value) ==
    IF value.type = "string" THEN Ok(value.text) ELSE Err("invalid type")

deserialize_bigdecimal_stable(value) ==
    LET b == String_deserialize(value) IN
    IF ~IsOk(b) THEN b
    ELSE IF b.val = "" THEN Ok(None)
    ELSE IF IsOk(BigDecimal_from_str(b.val)) THEN Ok(Some(BigDecimal_from_str(b.val).val))
    ELSE Ok(None)

\* One of the four members of a Product: #[serde(default)] gives None to a
\* member the body does not have, deserialize_with reads one it has.
Product_member(body, m) ==
    IF m \notin body.has THEN Ok(None) ELSE deserialize_bigdecimal_stable(body[m])

\* <Product as Deserialize>::deserialize on a JSON object: the first member
\* that cannot be read fails the Product.
Product_deserialize(body) ==
    IF \E i \in 1..Len(StableDecimals) : ~IsOk(Product_member(body, StableDecimals[i]))
    THEN Err(InvalidType(StableDecimals[
                CHOOSE i \in 1..Len(StableDecimals) :
                   /\ ~IsOk(Product_member(body, StableDecimals[i]))
                   /\ \A j \in 1..(i - 1) : IsOk(Product_member(body, StableDecimals[j]))]))
    ELSE IF "product_id" \notin body.has THEN Err(MissingField("product_id"))
    ELSE Ok([product_id |-> body.product_id,
             price |-> Product_member(body, "price").val,
             price_percentage_change_24h |->
                 Product_member(body, "price_percentage_change_24h").val,
             volume_24h |-> Product_member(body, "volume_24h").val,
             volume_percentage_change_24h |->
                 Product_member(body, "volume_percentage_change_24h").val])

\* <ProductsResponse as Deserialize>::deserialize: the products are read in
\* order and the first that fails fails the response.
ProductsResponse_deserialize(body) ==
    LET ps == [i \in 1..Len(body.items) |-> Product_deserialize(body.items[i])] IN
    IF "products" \notin body.has THEN Err(MissingField("products"))
    ELSE IF \E i \in 1..Len(ps) : ~IsOk(ps[i])
    THEN ps[CHOOSE i \in 1..Len(ps) : ~IsOk(ps[i]) /\ \A j \in 1..(i - 1) : IsOk(ps[j])]
    ELSE IF "num_products" \notin body.has THEN Err(MissingField("num_products"))
    ELSE Ok([products |-> [i \in 1..Len(ps) |-> ps[i].val],
             num_products |-> body.num_products])

\* The value a schema builds from a body that satisfies it.
StructOf(schema, body) ==
    IF Holds(schema, "error")
    THEN [error |-> body.error, code |-> body.code, message |-> body.message]
    ELSE IF schema = TransactionsSummary
    THEN \* every member of the struct has a value, None for an absent Option
         [members |-> Range(schema)]
    ELSE [items |-> body.items,
          has_next |-> IF Holds(schema, "has_next") THEN body.has_next ELSE FALSE,
          cursor |-> body.cursor]

\* serde_json::from_str::<schema>(body): unknown members are ignored, a
\* mistyped member fails where the reader meets it, a missing member that
\* is no Option fails at the end of the object, in the order of the
\* struct's declaration.
from_str(schema, body) ==
    IF ~body.json THEN Err(SyntaxError)
    ELSE IF schema = Product THEN Product_deserialize(body)
    ELSE IF schema = ProductsResponse THEN ProductsResponse_deserialize(body)
    ELSE IF \E i \in 1..Len(schema) : schema[i] \in body.bad
    THEN Err(InvalidType(FirstIn(DocOrder, Range(schema) \cap body.bad)))
    ELSE IF \E i \in 1..Len(schema) :
               schema[i] \notin body.has \cup OptionalMembers(schema)
    THEN Err(MissingField(FirstIn(schema, Range(schema)
                                          \ (body.has \cup OptionalMembers(schema)))))
    ELSE Ok(StructOf(schema, body))

(***************************************************************************)
(* CbError, and CbClient::unpack_response.  The decoder returns its result *)
(* together with the list of schemas it parsed the body against, in order. *)
(***************************************************************************)
Http == [variant |-> "Http"]
Serde(detail) == [variant |-> "Serde", detail |-> detail]
Coinbase(e) == [variant |-> "Coinbase", e |-> e]

\* unpack_response parsing against the service-error schema first.
unpack_response_error_first(T, text) ==
    LET first == from_str(CbRequestError, text) IN
    IF IsOk(first)
    THEN [result |-> Err(Coinbase(first.val)), attempts |-> << CbRequestError >>]
    ELSE LET second == from_str(T, text) IN
         [result |-> IF IsOk(second) THEN Ok(second.val) ELSE Err(Serde(second.err)),
          attempts |-> << CbRequestError, T >>]

\* unpack_response without the second parse: every failure is a Serde error.
unpack_response_no_second(T, text) ==
    LET first == from_str(T, text) IN
    [result |-> IF IsOk(first) THEN Ok(first.val) ELSE Err(Serde(first.err)),
     attempts |-> << T >>]

\* unpack_response reporting the failure of the second parse.
unpack_response_second_detail(T, text) ==
    LET first == from_str(T, text) IN
    IF IsOk(first)
    THEN [result |-> Ok(first.val), attempts |-> << T >>]
    ELSE LET second == from_str(CbRequestError, text) IN
         [result |-> IF IsOk(second) THEN Err(Coinbase(second.val))
                     ELSE Err(Serde(second.err)),
          attempts |-> << T, CbRequestError >>]

unpack_response(T, text) ==
    LET first == from_str(T, text) IN
    IF IsOk(first)
    THEN [result |-> Ok(first.val), attempts |-> << T >>]
    ELSE LET second == from_str(CbRequestError, text) IN
         [result |-> IF IsOk(second) THEN Err(Coinbase(second.val))
                     ELSE Err(Serde(first.err)),
          attempts |-> << T, CbRequestError >>]


\* A get that takes an error status for a failure (error_for_status).
get_error_for_status(T, outcome) ==
    IF outcome.kind = "transport" \/ outcome.status >= 400
    THEN [result |-> Err(Http), attempts |-> << >>]
    ELSE unpack_response(T, outcome.text)

\* CbClient::get: a transport failure (send or reading the text) is an Http
\* error and nothing is parsed; otherwise the body is unpacked, whatever
\* the status of the response.
get(T, outcome) ==
    IF outcome.kind = "transport"
    THEN [result |-> Err(Http), attempts |-> << >>]
    ELSE unpack_response(T, outcome.text)

(***************************************************************************)
(* The string-backed enums of the bindings.  Each derives                  *)
(* Serialize_enum_str and Deserialize_enum_str under                       *)
(* #[serde(rename_all = "SCREAMING_SNAKE_CASE")]: its Display and its      *)
(* Serialize write the serde name of the variant, its FromStr and its      *)
(* Deserialize read it back.  A variant is written by its Rust identifier. *)
(***************************************************************************)
\* orders.rs
StopDirection == << "UnknownStopDirection", "StopDirectionStopUp", "StopDirectionStopDown" >>
Status == << "Open", "Filled", "Cancelled", "Expired", "Failed", "UnknownOrderStatus" >>
TimeInForce == << "UnknownTimeInForce", "GoodUntilDateTime", "GoodUntilCancelled",
                  "ImmediateOrCancel", "FillOrKill" >>
TriggerStatus == << "UnknownTriggerStatus", "InvalidOrderType", "StopPending",
                    "StopTriggered" >>
OrderType == << "UnknownOrderType", "Market", "Limit", "Stop", "StopLimitOrderType" >>
RejectReason == << "RejectReasonUnspecified" >>
OrderPlacementSource == << "RetailSimple", "RetailAdvanced" >>
\* products.rs
ProductType == << "Spot", "Future" >>
ContractExpiryType == << "UnknownRiskManagementType", "Expiring" >>
Granularity == << "UnknownGranularity", "OneMinute", "FiveMinute", "FifteenMinute",
                  "ThirtyMinute", "OneHour", "TwoHour", "SixHour", "OneDay" >>
Side == << "UnknownOrderSide", "Buy", "Sell" >>
TradeType == << "Fill", "Reversal", "Correction", "Synthetic" >>
\* accounts.rs
AccountType == << "AccountTypeUnspecified", "AccountTypeCrypto", "AccountTypeFiat",
                  "AccountTypeVault" >>
\* fees.rs
GoodsAndServicesTaxType == << "Inclusive", "Exclusive" >>

Enums == { "StopDirection", "Status", "TimeInForce", "TriggerStatus", "OrderType",
           "RejectReason", "OrderPlacementSource", "ProductType", "ContractExpiryType",
           "Granularity", "Side", "TradeType", "AccountType", "GoodsAndServicesTaxType" }

VariantsOf(enum) ==
    CASE enum = "StopDirection" -> StopDirection
      [] enum = "Status" -> Status
      [] enum = "TimeInForce" -> TimeInForce
      [] enum = "TriggerStatus" -> TriggerStatus
      [] enum = "OrderType" -> OrderType
      [] enum = "RejectReason" -> RejectReason
      [] enum = "OrderPlacementSource" -> OrderPlacementSource
      [] enum = "ProductType" -> ProductType
      [] enum = "ContractExpiryType" -> ContractExpiryType
      [] enum = "Granularity" -> Granularity
      [] enum = "Side" -> Side
      [] enum = "TradeType" -> TradeType
      [] enum = "AccountType" -> AccountType
      [] enum = "GoodsAndServicesTaxType" -> GoodsAndServicesTaxType

\* No variant carries a #[serde(rename)] of its own.
serde_rename_none(enum, variant) == None

\* #[serde(rename = "..")] on a variant: the one of OrderType.
serde_rename(enum, variant) ==
    IF enum = "OrderType" /\ variant = "StopLimitOrderType" THEN Some("STOP_LIMIT")
    ELSE None

UpperCase == "ABCDEFGHIJKLMNOPQRSTUVWXYZ"
LowerCase == "abcdefghijklmnopqrstuvwxyz"

CharAt(s, i) == SubSeq(s, i, i)

\* The position of a character in an alphabet, 0 when it is not in it.
IndexIn(alphabet, c) ==
    IF \E i \in 1..Len(alphabet) : CharAt(alphabet, i) = c
    THEN CHOOSE i \in 1..Len(alphabet) : CharAt(alphabet, i) = c
    ELSE 0

is_uppercase(c) == IndexIn(UpperCase, c) > 0

to_ascii_lowercase(c) ==
    IF IndexIn(UpperCase, c) > 0 THEN CharAt(LowerCase, IndexIn(UpperCase, c)) ELSE c

to_ascii_uppercase(c) ==
    IF IndexIn(LowerCase, c) > 0 THEN CharAt(UpperCase, IndexIn(LowerCase, c)) ELSE c

\* rename_all = "snake_case" on a variant, from its i-th character on: an
\* underscore before every upper-case character but the first, and every
\* character in lower case.
RECURSIVE snake_case(_, _)
snake_case(variant, i) ==
    IF i > Len(variant) THEN ""
    ELSE (IF i > 1 /\ is_uppercase(CharAt(variant, i)) THEN "_" ELSE "")
         \o to_ascii_lowercase(CharAt(variant, i))
         \o snake_case(variant, i + 1)

\* str::to_ascii_uppercase, from the i-th character on.
RECURSIVE to_ascii_uppercase_str(_, _)
to_ascii_uppercase_str(s, i) ==
    IF i > Len(s) THEN ""
    ELSE to_ascii_uppercase(CharAt(s, i)) \o to_ascii_uppercase_str(s, i + 1)

\* rename_all = "SCREAMING_SNAKE_CASE" on a variant: its snake case, in
\* upper case.
SCREAMING_SNAKE_CASE(variant) == to_ascii_uppercase_str(snake_case(variant, 1), 1)

\* The serde name of a variant: its own rename when it has one, the
\* rename_all rule of the enum otherwise.
serde_name(enum, variant) ==
    IF IsSome(serde_rename(enum, variant)) THEN serde_rename(enum, variant)[1]
    ELSE SCREAMING_SNAKE_CASE(variant)

\* The serde names of all variants, worked out once.
SerdeNames ==
    [enum \in Enums |-> [variant \in Range(VariantsOf(enum)) |-> serde_name(enum, variant)]]

\* Serialize_enum_str: Display (and with it to_string and Serialize) writes
\* the serde name.
enum_to_string(enum, variant) == SerdeNames[enum][variant]

\* Deserialize_enum_str: FromStr (and with it Deserialize) yields the
\* variant that has the serde name read, and fails when there is none (no
\* enum has a #[serde(other)] variant).
enum_from_str(enum, s) ==
    LET vs == VariantsOf(enum)
        hits == { i \in 1..Len(vs) : SerdeNames[enum][vs[i]] = s }
    IN IF hits = {} THEN Err("unknown variant")
       ELSE Ok(vs[CHOOSE i \in hits : \A j \in hits : i <= j])

(***************************************************************************)
(* DateTime = chrono::DateTime<Utc>: a calendar date and a time of day in  *)
(* UTC with nanoseconds, and the two ways the client renders one.          *)
(***************************************************************************)
\* A number in decimal, zero-padded to a width: {:0width}.
RECURSIVE Pad(_, _)
Pad(n, width) ==
    IF width <= 1 THEN NatToString(n)
    ELSE Pad(n \div 10, width - 1) \o Digit(n % 10)

\* %Y-%m-%d
DateOf(dt) == Pad(dt.year, 4) \o "-" \o Pad(dt.month, 2) \o "-" \o Pad(dt.day, 2)

\* %H:%M:%S
TimeOf(dt) == Pad(dt.hour, 2) \o ":" \o Pad(dt.minute, 2) \o ":" \o Pad(dt.second, 2)

\* The fraction Display writes after the seconds: nothing for a whole
\* second, else 3, 6 or 9 digits, the fewest that lose nothing.
FractionOf(dt) ==
    IF dt.nano = 0 THEN ""
    ELSE IF dt.nano % 1000000 = 0 THEN "." \o Pad(dt.nano \div 1000000, 3)
    ELSE IF dt.nano % 1000 = 0 THEN "." \o Pad(dt.nano \div 1000, 6)
    ELSE "." \o Pad(dt.nano, 9)

\* DateTime::to_rfc3339_opts(SecondsFormat::Secs, true): the fraction of
\* the second is left out and UTC is written Z.
to_rfc3339_opts(dt) == DateOf(dt) \o "T" \o TimeOf(dt) \o "Z"

\* DateTime<Utc>::to_string, that is Display: date, time and offset
\* separated by spaces.
DateTime_to_string(dt) == DateOf(dt) \o " " \o TimeOf(dt) \o FractionOf(dt) \o " UTC"

\* The instants callers pass: whole seconds, and one with a fraction.
DateTimes ==
    { [year |-> 2021, month |-> 5, day |-> 31, hour |-> 9, minute |-> 59,
       second |-> 59, nano |-> 0],
      [year |-> 2023, month |-> 7, day |-> 5, hour |-> 5, minute |-> 30,
       second |-> 57, nano |-> 651784000] }

StartDate == CHOOSE d \in DateTimes : d.nano = 0
EndDate == CHOOSE d \in DateTimes : d.nano # 0

\* The two renderings of every instant, worked out once.
DateTimeTexts ==
    [dt \in DateTimes |-> [rfc3339 |-> to_rfc3339_opts(dt),
                           display |-> DateTime_to_string(dt)]]

\* ToString::to_string for the types the client passes to QueryArgs.
to_string(type, x) ==
    CASE type = "String" -> x
      [] type \in { "i32", "i64" } -> IntToString(x)
      [] type = "DateTime" -> DateTimeTexts[x].display
      [] type \in Enums -> enum_to_string(type, x)

(***************************************************************************)
(* QueryArgs and the request URIs.  A URI is kept as its path and the      *)
(* pairs of QueryArgs::get, which the template {?query*} writes in order   *)
(* as key=value, percent-encoded.                                          *)
(***************************************************************************)
OptIntToString(o) == IF IsSome(o) THEN Some(IntToString(o[1])) ELSE None

\* QueryArgs::add_optional_scalar_arg<T: ToString>
add_optional_scalar_arg(data, key, type, value) ==
    IF IsSome(value) THEN Append(data, << key, to_string(type, value[1]) >>) ELSE data

\* QueryArgs::add_optional_datetime_arg
add_optional_datetime_arg(data, key, value) ==
    IF IsSome(value) THEN Append(data, << key, DateTimeTexts[value[1]].rfc3339 >>) ELSE data

\* QueryArgs::add_optional_vec_args<T: ToString>
add_optional_vec_args(data, key, type, values) ==
    IF IsSome(values)
    THEN data \o [i \in 1..Len(values[1]) |-> << key, to_string(type, values[1][i]) >>]
    ELSE data

\* The accounts URI built without the cursor.
get_list_accounts_uri_no_cursor(limit, cursor) ==
    [path |-> "/brokerage/accounts",
     query |-> add_optional_scalar_arg(<< >>, "limit", "i32", limit)]

get_list_accounts_uri(limit, cursor) ==
    LET a1 == add_optional_scalar_arg(<< >>, "limit", "i32", limit)
        a2 == add_optional_scalar_arg(a1, "cursor", "String", cursor)
    IN [path |-> "/brokerage/accounts", query |-> a2]

\* The query of list_products.
list_products_args(limit, offset, product_type, product_ids, contract_expiry_type) ==
    LET a1 == add_optional_scalar_arg(<< >>, "limit", "i32", limit)
        a2 == add_optional_scalar_arg(a1, "offset", "i32", offset)
        a3 == add_optional_scalar_arg(a2, "product_type", "ProductType", product_type)
        a4 == add_optional_vec_args(a3, "product_ids", "String", product_ids)
        a5 == add_optional_scalar_arg(a4, "contract_expiry_type", "ContractExpiryType",
                                      contract_expiry_type)
    IN [path |-> "/brokerage/products", query |-> a5]

get_list_orders_uri(product_id, order_status, limit, start_date, end_date, deprecated_user_native_currency, order_type, order_side, cursor, product_type, order_placement_source, contract_expiry_type) ==
    LET a1 == add_optional_scalar_arg(<< >>, "product_id", "String", product_id)
        a2 == add_optional_vec_args(a1, "order_status", "Status", order_status)
        a3 == add_optional_scalar_arg(a2, "limit", "i32", limit)
        a4 == add_optional_datetime_arg(a3, "start_date", start_date)
        a5 == add_optional_datetime_arg(a4, "end_date", end_date)
        a6 == add_optional_scalar_arg(a5, "deprecated_user_native_currency", "String",
                                      deprecated_user_native_currency)
        a7 == add_optional_scalar_arg(a6, "order_type", "OrderType", order_type)
        a8 == add_optional_scalar_arg(a7, "order_side", "Side", order_side)
        a9 == add_optional_scalar_arg(a8, "cursor", "String", cursor)
        a10 == add_optional_scalar_arg(a9, "product_type", "ProductType", product_type)
        a11 == add_optional_scalar_arg(a10, "order_placement_source",
                                       "OrderPlacementSource", order_placement_source)
        a12 == add_optional_scalar_arg(a11, "contract_expirty_type",
                                       "ContractExpiryType", contract_expiry_type)
    IN [path |-> "/brokerage/orders/historical/batch", query |-> a12]

get_list_fills_uri(order_id, product_id, start_sequence_timestamp, end_sequence_timestamp, limit, cursor) ==
    LET a1 == add_optional_scalar_arg(<< >>, "order_id", "String", order_id)
        a2 == add_optional_scalar_arg(a1, "product_id", "String", product_id)
        a3 == add_optional_scalar_arg(a2, "start_sequence_timestamp", "DateTime",
                                      start_sequence_timestamp)
        a4 == add_optional_scalar_arg(a3, "end_sequence_timestamp", "DateTime",
                                      end_sequence_timestamp)
        a5 == add_optional_scalar_arg(a4, "limit", "i64", limit)
        a6 == add_optional_scalar_arg(a5, "cursor", "String", cursor)
    IN [path |-> "/brokerage/orders/historical/fills", query |-> a6]

\* The query of get_transactions_summary.
get_transactions_summary_args(start_date, end_date, user_native_currency, product_type, contract_expiry_type) ==
    LET a1 == add_optional_datetime_arg(<< >>, "start_date", start_date)
        a2 == add_optional_datetime_arg(a1, "end_date", end_date)
        a3 == add_optional_scalar_arg(a2, "user_native_currency", "String",
                                      user_native_currency)
        a4 == add_optional_scalar_arg(a3, "product_type", "ProductType", product_type)
        a5 == add_optional_scalar_arg(a4, "contract_expiry_type", "ContractExpiryType",
                                      contract_expiry_type)
    IN [path |-> "/brokerage/transaction_summary", query |-> a5]

\* The values a query holds under a key, in order.
RECURSIVE ValuesOf(_, _)
ValuesOf(query, key) ==
    IF query = << >> THEN << >>
    ELSE IF Head(query)[1] = key
         THEN << Head(query)[2] >> \o ValuesOf(Tail(query), key)
         ELSE ValuesOf(Tail(query), key)

(***************************************************************************)
(* The inputs: the caller's arguments and what the server may answer.      *)
(***************************************************************************)
Endpoints == { "accounts", "orders", "fills" }

SchemaOf(ep) == CASE ep = "accounts" -> AccountsResponse
                  [] ep = "orders" -> OrdersResponse
                  [] ep = "fills" -> FillsResponse

\* The calls followed, for each endpoint: one as the example programs make
\* it (a page size, no cursor, few filters or none), and one that resumes
\* from a cursor, gives no page size and sets every filter.
CallerArgs(ep) ==
    CASE ep = "accounts" ->
            { [limit |-> Some(4), cursor |-> None],
              [limit |-> None, cursor |-> Some("c0")] }
      [] ep = "orders" ->
            { [product_id |-> None, order_status |-> None, limit |-> Some(4),
               start_date |-> None, end_date |-> None,
               deprecated_user_native_currency |-> None, order_type |-> None,
               order_side |-> Some("Buy"), cursor |-> None,
               product_type |-> Some("Spot"), order_placement_source |-> None,
               contract_expiry_type |-> None],
              [product_id |-> Some("BTC-USD"),
               order_status |-> Some(<< "Open", "Filled" >>), limit |-> None,
               start_date |-> Some(StartDate), end_date |-> Some(EndDate),
               deprecated_user_native_currency |-> Some("USD"),
               order_type |-> Some("StopLimitOrderType"),
               order_side |-> Some("Sell"), cursor |-> Some("c0"),
               product_type |-> Some("Future"),
               order_placement_source |-> Some("RetailAdvanced"),
               contract_expiry_type |-> Some("Expiring")] }
      [] ep = "fills" ->
            { [order_id |-> None, product_id |-> None,
               start_sequence_timestamp |-> None, end_sequence_timestamp |-> None,
               limit |-> Some(4), cursor |-> None],
              [order_id |-> Some("o1"), product_id |-> Some("BTC-USD"),
               start_sequence_timestamp |-> Some(StartDate),
               end_sequence_timestamp |-> Some(EndDate),
               limit |-> None, cursor |-> Some("c0")] }

Cursors == { "", "c1", "c2" }

\* An item batch of n items; items are numbered.
Batch(n) == [i \in 1..n |-> i]
BatchSizes == { 0, 2, 4 }
Batches == { Batch(n) : n \in BatchSizes }

ServiceErrors == { [error |-> "NOT_FOUND", code |-> 5, message |-> "order not found"],
                   [error |-> "PERMISSION_DENIED", code |-> 7, message |-> "missing scope"] }

NoError == [error |-> "", code |-> 0, message |-> ""]
NoPage == [items |-> << >>, has_next |-> FALSE, cursor |-> ""]

Body(has, bad, page, e) ==
    [json |-> TRUE, has |-> has, bad |-> bad,
     items |-> page.items, has_next |-> page.has_next, cursor |-> page.cursor,
     error |-> e.error, code |-> e.code, message |-> e.message]

Garbage == [Body({}, {}, NoPage, NoError) EXCEPT !.json = FALSE]

Pages(T) == { [items |-> b, has_next |-> h, cursor |-> c] :
                 b \in Batches,
                 h \in IF Holds(T, "has_next") THEN BOOLEAN ELSE { FALSE },
                 c \in Cursors }

\* Bodies that satisfy the success schema T alone.
SuccessBodies(T) == { Body(Range(T), {}, p, NoError) : p \in Pages(T) }

\* Bodies that satisfy the service-error schema alone.
ErrorBodies == { Body(Range(CbRequestError), {}, NoPage, e) : e \in ServiceErrors }

\* Bodies that satisfy both schemas.
DualBodies(T) ==
    { Body(Range(T) \cup Range(CbRequestError), {},
           [items |-> Batch(2), has_next |-> FALSE, cursor |-> c], e) :
        c \in { "", "c1" }, e \in ServiceErrors }

\* Bodies that satisfy neither schema.
BrokenBodies(T) ==
    LET p == [items |-> Batch(2), has_next |-> FALSE, cursor |-> "c1"]
        e == CHOOSE x \in ServiceErrors : x.code = 5
    IN { Garbage,
         Body({}, {}, NoPage, NoError),
         Body(Range(T) \ { "cursor" }, {}, [p EXCEPT !.cursor = ""], NoError),
         Body(Range(T), { "cursor" }, [p EXCEPT !.cursor = ""], NoError),
         Body(Range(CbRequestError) \ { "details" }, {}, NoPage, e),
         Body(Range(CbRequestError), { "code" }, NoPage, [e EXCEPT !.code = 0]),
         Body((Range(T) \ { "cursor" }) \cup Range(CbRequestError), { "details" },
              [p EXCEPT !.cursor = ""], e) }

\* Fills bodies that carry a has_next member next to the members of
\* FillsResponse: the flag and the cursor disagree about a further page.
FlaggedFillsBodies ==
    { Body(Range(FillsResponse) \cup { "has_next" }, {},
           [items |-> Batch(2), has_next |-> h, cursor |-> IF h THEN "" ELSE "c1"],
           NoError) : h \in BOOLEAN }

Bodies(T) == SuccessBodies(T) \cup ErrorBodies \cup DualBodies(T) \cup BrokenBodies(T)
             \cup (IF T = FillsResponse THEN FlaggedFillsBodies ELSE {})

\* What one request can end with.
Outcomes(T) == { [kind |-> "transport", text |-> Garbage] }
               \cup { [kind |-> "body", text |-> b] : b \in Bodies(T) }

(***************************************************************************)
(* The OAuth2 flow of src/src/basic_oauth.rs: OAuthCbClient, the token     *)
(* store a CbClient reads its bearer token from.                           *)
(***************************************************************************)
\* scopes.rs: the scopes add_scope accepts.
VALID_SCOPES ==
    { "wallet:accounts:read", "wallet:accounts:update", "wallet:accounts:create",
      "wallet:accounts:delete", "wallet:addresses:read", "wallet:addresses:create",
      "wallet:buys:read", "wallet:buys:create", "wallet:deposits:read",
      "wallet:deposits:create", "wallet:notifications:read",
      "wallet:payment-methods:read", "wallet:payment-methods:delete",
      "wallet:payment-methods:limits", "wallet:sells:read", "wallet:sells:create",
      "wallet:transactions:read", "wallet:transactions:send",
      "wallet:transactions:request", "wallet:transactions:transfer",
      "wallet:user:read", "wallet:user:update", "wallet:user:email",
      "wallet:withdrawals:read", "wallet:withdrawals:create" }

\* The scope descriptions callers pass: two of the list and one outside it.
ScopeDescriptions == { "wallet:accounts:read", "wallet:user:read", "wallet:orders:read" }

\* The redirect URLs callers pass: the one of the documentation, one that
\* names no port, one that names the default port of its scheme, one that
\* names no host, and the empty string of the doc tests.
RedirectUrlTexts == { "http://localhost:3001", "http://localhost", "http://localhost:80",
                      "mailto:me@localhost", "" }

\* RedirectUrl::new, that is Url::parse: a text without a scheme is a
\* relative URL and has no base to resolve against; Url::port is None when
\* the text names no port or the default port of its scheme.
RedirectUrl_new(text) ==
    CASE text = "http://localhost:3001" ->
            Ok([scheme |-> "http", host |-> Some("localhost"), port |-> Some(3001)])
      [] text = "http://localhost" ->
            Ok([scheme |-> "http", host |-> Some("localhost"), port |-> None])
      [] text = "http://localhost:80" ->
            Ok([scheme |-> "http", host |-> Some("localhost"), port |-> None])
      [] text = "mailto:me@localhost" ->
            Ok([scheme |-> "mailto", host |-> None, port |-> None])
      [] text = "" -> Err("relative URL without a base")

\* CsrfToken::new_random: some value, new at each authorize_once.
CsrfTokens == { "s1", "s2" }

\* An authorization URL that asks for no scope.
authorize_url_of_no_scopes(scopes, csrf) ==
    [url |-> "https://www.coinbase.com/oauth/authorize", scope |-> {}, state |-> csrf]

\* client.authorize_url(CsrfToken::new_random).add_scopes(self.scopes.clone()).url():
\* the authorization endpoint with the scopes of the object (a HashSet: in
\* no particular order) and the CSRF token as its state.
authorize_url_of(scopes, csrf) ==
    [url |-> "https://www.coinbase.com/oauth/authorize", scope |-> scopes,
     state |-> csrf]

\* The first pair of a query with the given key: query_pairs().find(..).
RECURSIVE find(_, _)
find(pairs, key) ==
    IF pairs = << >> THEN None
    ELSE IF Head(pairs)[1] = key THEN Some(Head(pairs)[2])
    ELSE find(Tail(pairs), key)

\* What the listener reads and writes on an accepted connection: whether
\* the first line is UTF-8 (read_line), the number of whitespace-separated
\* tokens of that request line, whether scheme://host followed by its
\* second token parses as a URL, the query pairs the second token names,
\* and whether the answer can be written back.
Callback(utf8, tokens, parses, pairs, writable) ==
    [utf8 |-> utf8, tokens |-> tokens, parses |-> parses, pairs |-> pairs,
     writable |-> writable]

\* The connections followed: GET /?code=k1&state=s HTTP/1.1 and its
\* variants; the same line with a byte that is no UTF-8 behind it; and
\* GET :x?code=k1&state=s1 HTTP/1.1, whose target makes no URL.
Callbacks ==
    { Callback(TRUE, 3, TRUE, << << "code", "k1" >>, << "state", s >> >>, TRUE) :
        s \in CsrfTokens }
    \cup { Callback(TRUE, 3, TRUE, << << "state", "s1" >>, << "code", "k2" >>,
                                   << "state", "s2" >> >>, TRUE),
           Callback(TRUE, 3, TRUE, << << "code", "k1" >>, << "state", "s1" >> >>, FALSE),
           Callback(TRUE, 3, TRUE, << << "state", "s1" >> >>, TRUE),
           Callback(TRUE, 3, TRUE, << << "code", "k1" >> >>, TRUE),
           Callback(TRUE, 3, TRUE, << << "error", "access_denied" >> >>, TRUE),
           Callback(TRUE, 0, TRUE, << >>, TRUE),
           Callback(FALSE, 3, TRUE, << << "code", "k1" >>, << "state", "s1" >> >>, TRUE),
           Callback(TRUE, 3, FALSE, << << "code", "k1" >>, << "state", "s1" >> >>, TRUE) }

\* What the token endpoint may answer to the n-th exchange it grants: a
\* failure, or a new access token with or without a new refresh token.
TokenResponses(n) ==
    { Err("request failed") }
    \cup { Ok([access_token |-> "a" \o NatToString(n), refresh_token |-> r]) :
             r \in { None, Some("r" \o NatToString(n)) } }

\* StandardRevocableToken
AccessTokenToRevoke(secret) == [kind |-> "access_token", secret |-> secret]
RefreshTokenToRevoke(secret) == [kind |-> "refresh_token", secret |-> secret]

\* client.exchange_code(code).request_async(..): a call to the token endpoint.
exchange_code(code) ==
    [endpoint |-> "token", kind |-> "authorization_code", secret |-> code]

NoPanic == [op |-> "", cause |-> ""]

VARIABLES
    phase,          \* where the OAuthCbClient is: not built, between calls,
                    \* inside authorize_once or revoke_access, or gone in a panic
    panic,          \* the operation that panicked and why
    redirect,       \* client.redirect_url(), parsed
    scopes,         \* OAuthCbClient::scopes
    access_token,   \* OAuthCbClient::access_token
    refresh_token,  \* OAuthCbClient::refresh_token
    csrf_state,     \* csrf_state of the authorize_once in progress
    authorize_url,  \* authorize_url of the authorize_once in progress
    borrowed,       \* a CbClient holds a reference to the OAuthCbClient
    authorizations, \* how many authorize_once calls have bound their listener
    accept_errors,  \* connections the listener of the call in progress failed
                    \* to accept (0 once the call has returned)
    callbacks,      \* the connections accepted, each with the call's csrf_state
    calls,          \* the outbound calls of the OAuthCbClient, in order
    granted,        \* the token responses of the successful exchanges, in order
    revoked,        \* the revocation calls that succeeded, in order, each with
                    \* the number of exchanges granted before it
    bearers         \* the bearer tokens CbClient attached to its requests, each
                    \* with the numbers of exchanges and revocations before it

avars == << phase, panic, redirect, scopes, access_token, refresh_token, csrf_state,
            authorize_url,
            borrowed, authorizations, accept_errors, callbacks, calls, granted,
            revoked, bearers >>

\* The token provider of the streams followed: an OAuthCbClient whose
\* authorize_once has completed, borrowed by the CbClient of the stream.
ProviderAuthorized ==
    /\ phase = "idle"
    /\ panic = NoPanic
    /\ redirect = Some(RedirectUrl_new("http://localhost:3001").val)
    /\ scopes = { "wallet:accounts:read" }
    /\ access_token = Some("a1")
    /\ refresh_token = None
    /\ csrf_state = None
    /\ authorize_url = None
    /\ borrowed = TRUE
    /\ authorizations = 1
    /\ accept_errors = 0
    /\ callbacks = << [callback |-> Callback(TRUE, 3, TRUE, << << "code", "k1" >>,
                                                   << "state", "s1" >> >>, TRUE),
                       csrf_state |-> "s1"] >>
    /\ calls = << exchange_code("k1") >>
    /\ granted = << [access_token |-> "a1", refresh_token |-> None] >>
    /\ revoked = << >>
    /\ bearers = << >>

(***************************************************************************)
(* The state of one call that is no stream: a request of CbClient, the     *)
(* building of a URI, or the writing or reading of an enum.                *)
(***************************************************************************)
VARIABLES
    operation,  \* the operation called
    input,      \* its arguments and, for a request, what the server answers
    output      \* None until the call has returned, then Some(what it returned)

cvars == << operation, input, output >>

\* The call variables while no call is followed.
NoCall ==
    /\ operation = "none"
    /\ input = [none |-> TRUE]
    /\ output = None

(***************************************************************************)
(* The state of one stream.                                                *)
(***************************************************************************)
VARIABLES
    endpoint,   \* which of list_accounts, list_orders, list_fills was called
    args,       \* the caller's arguments: [limit, cursor]
    pc,         \* where the generator is suspended
    response,   \* the generator's *_response variable (the last decoded page)
    requests,   \* the URIs of the requests issued, in order
    received,   \* the outcomes of the requests answered, in order
    attempts,   \* the schemas the last outcome was parsed against, in order
    yielded,    \* the elements the stream has produced, in order
    demands     \* how often the consumer has asked for the next element

svars == << endpoint, args, pc, response, requests, received, attempts, yielded, demands >>

vars == << svars, avars, cvars >>

\* list_accounts / list_orders / list_fills return the generator unstarted:
\* try_stream! runs nothing until the stream is polled.
Init ==
    /\ endpoint \in Endpoints
    /\ args \in CallerArgs(endpoint)
    /\ pc = "created"
    /\ response = NoPage
    /\ requests = << >>
    /\ received = << >>
    /\ attempts = << >>
    /\ yielded = << >>
    /\ demands = 0
    /\ ProviderAuthorized
    /\ NoCall

(***************************************************************************)
(* The three generators.  They differ in the URI they build and in the     *)
(* condition of their while loop.                                          *)
(***************************************************************************)
\* The URI of a request of the stream, from the caller's arguments and a
\* cursor.
uri_of(ep, a, cursor) ==
    CASE ep = "accounts" -> get_list_accounts_uri(a.limit, cursor)
      [] ep = "orders" ->
            get_list_orders_uri(a.product_id, a.order_status, a.limit, a.start_date,
                                a.end_date, a.deprecated_user_native_currency,
                                a.order_type, a.order_side, cursor, a.product_type,
                                a.order_placement_source, a.contract_expiry_type)
      [] ep = "fills" ->
            get_list_fills_uri(a.order_id, a.product_id, a.start_sequence_timestamp,
                               a.end_sequence_timestamp, a.limit, cursor)

\* let uri = Self::get_list_.._uri(.., cursor, ..), before the loop: built
\* from the caller's arguments, the cursor among them.
first_uri(ep, a) == uri_of(ep, a, a.cursor)

\* A loop that keeps the page size and the cursor and forgets the filters.
loop_uri_without_filters(ep, a, cursor) ==
    [path |-> uri_of(ep, a, cursor).path,
     query |-> get_list_accounts_uri(a.limit, cursor).query]

\* let uri = Self::get_list_.._uri(.., cursor, ..), inside the loop: built
\* from the caller's arguments again, with the loop's cursor in the place
\* of the caller's.
loop_uri(ep, a, cursor) == uri_of(ep, a, cursor)

\* A loop that never looks at the flag.
list_accounts_continue_always(resp) == TRUE

\* while accounts_response.has_next
list_accounts_continue(resp) == resp.has_next

\* The orders loop deciding as the fills loop does.
list_orders_continue_cursor(resp) == resp.cursor # ""

\* while orders_response.has_next
list_orders_continue(resp) == resp.has_next

\* The fills loop deciding as the other two do.
list_fills_continue_flag(resp) == resp.has_next

\* while fills_response.cursor != ""
list_fills_continue(resp) == resp.cursor # ""

\* A loop that also ends when a page names the cursor it was asked for.
continue_unless_cursor_repeats(ep, resp) ==
    /\ CASE ep = "accounts" -> list_accounts_continue(resp)
         [] ep = "orders" -> list_orders_continue(resp)
         [] ep = "fills" -> list_fills_continue(resp)
    /\ find(requests[Len(requests)].query, "cursor") # Some(resp.cursor)

continue(ep, resp) ==
    CASE ep = "accounts" -> list_accounts_continue(resp)
      [] ep = "orders" -> list_orders_continue(resp)
      [] ep = "fills" -> list_fills_continue(resp)

\* The loop restarting from an empty cursor.
next_cursor_empty(resp) == Some("")

\* let cursor = Some(response.cursor.clone()), inside the loop.
next_cursor(resp) == Some(resp.cursor)

\* A stream that keeps empty pages to itself.
yield_batch_skip_empty(out, resp) ==
    IF resp.items = << >> THEN out ELSE Append(out, Ok(resp.items))

\* yield response.<items>: the stream produces the page's item list.
yield_batch(out, resp) == Append(out, Ok(resp.items))

\* A generator that returns on an error without yielding it.
yield_error_dropped(out, e) == out

\* self.get(&uri).await? inside try_stream!: the error becomes an element of
\* the stream and the generator returns.
yield_error(out, e) == Append(out, Err(e))

\* The first poll: the generator builds the first URI from the caller's
\* arguments, sends the request and is suspended in get.
Start ==
    /\ pc = "created"
    /\ demands' = demands + 1
    /\ requests' = Append(requests, first_uri(endpoint, args))
    /\ pc' = "inflight"
    /\ UNCHANGED << endpoint, args, response, received, attempts, yielded >>
    /\ UNCHANGED << avars, cvars >>

\* A generator that sends the next request as soon as a page arrives.
ReceivePrefetch ==
    /\ pc = "inflight"
    /\ \E o \in Outcomes(SchemaOf(endpoint)) :
          LET g == get(SchemaOf(endpoint), o) IN
          /\ received' = Append(received, o)
          /\ attempts' = g.attempts
          /\ IF IsOk(g.result)
             THEN /\ response' = g.result.val
                  /\ yielded' = yield_batch(yielded, g.result.val)
                  /\ pc' = "yielded"
                  /\ requests' =
                        IF continue(endpoint, g.result.val) /\ Len(requests) < MaxPages
                        THEN Append(requests, loop_uri(endpoint, args,
                                                       next_cursor(g.result.val)))
                        ELSE requests
             ELSE /\ response' = response
                  /\ yielded' = yield_error(yielded, g.result.err)
                  /\ pc' = "errored"
                  /\ requests' = requests
    /\ UNCHANGED << endpoint, args, demands >>
    /\ UNCHANGED << avars, cvars >>

\* The request in flight ends: get returns, and the generator yields the
\* page's items, or the error.
Receive ==
    /\ pc = "inflight"
    /\ \E o \in Outcomes(SchemaOf(endpoint)) :
          LET g == get(SchemaOf(endpoint), o) IN
          /\ received' = Append(received, o)
          /\ attempts' = g.attempts
          /\ IF IsOk(g.result)
             THEN /\ response' = g.result.val
                  /\ yielded' = yield_batch(yielded, g.result.val)
                  /\ pc' = "yielded"
             ELSE /\ response' = response
                  /\ yielded' = yield_error(yielded, g.result.err)
                  /\ pc' = "errored"
    /\ UNCHANGED << endpoint, args, requests, demands >>
    /\ UNCHANGED << avars, cvars >>

\* A poll after a page was yielded, the loop condition holding: the next
\* request is sent with the cursor of the page just yielded.
Resume ==
    /\ pc = "yielded"
    /\ continue(endpoint, response)
    /\ Len(requests) < MaxPages
    /\ demands' = demands + 1
    /\ requests' = Append(requests, loop_uri(endpoint, args, next_cursor(response)))
    /\ pc' = "inflight"
    /\ UNCHANGED << endpoint, args, response, received, attempts, yielded >>
    /\ UNCHANGED << avars, cvars >>

\* A poll after a page was yielded, the loop condition failing: the
\* generator returns and the stream ends.
Finish ==
    /\ pc = "yielded"
    /\ ~continue(endpoint, response)
    /\ demands' = demands + 1
    /\ pc' = "done"
    /\ UNCHANGED << endpoint, args, response, requests, received, attempts, yielded >>
    /\ UNCHANGED << avars, cvars >>

\* A poll after an error was yielded: the generator returns.
FinishAfterError ==
    /\ pc = "errored"
    /\ demands' = demands + 1
    /\ pc' = "done"
    /\ UNCHANGED << endpoint, args, response, requests, received, attempts, yielded >>
    /\ UNCHANGED << avars, cvars >>

\* The consumer drops the stream before its end (a break out of the
\* consuming loop, or the consuming future being dropped).
Drop ==
    /\ pc \in { "created", "inflight", "yielded", "errored" }
    /\ pc' = "dropped"
    /\ UNCHANGED << endpoint, args, response, requests, received, attempts, yielded, demands >>
    /\ UNCHANGED << avars, cvars >>

Next == Start \/ Receive \/ Resume \/ Finish \/ FinishAfterError \/ Drop

Spec == Init /\ [][Next]_vars

\* let partial = result.unwrap() on an Err element, in the consuming loop of
\* the examples: the consumer panics and the stream is dropped in the
\* unwinding, never polled again.
UnwrapPanics ==
    /\ pc = "errored"
    /\ pc' = "dropped"
    /\ UNCHANGED << endpoint, args, response, requests, received, attempts, yielded, demands >>
    /\ UNCHANGED << avars, cvars >>

\* A stream consumed as the examples do,
\*   while let Some(result) = stream.next().await { let partial = result.unwrap(); .. }
\* the consumer polls the stream again after each page until the stream
\* ends, and panics on an error element; every request sent is answered or
\* fails.  (The loops of get_orders.rs also break on more than 30 items,
\* which the pages followed never hold.)
ConsumerNext == Start \/ Receive \/ Resume \/ Finish \/ UnwrapPanics

ConsumerFairness ==
    /\ WF_vars(Start)
    /\ WF_vars(Receive)
    /\ WF_vars(Resume)
    /\ WF_vars(Finish)
    /\ WF_vars(UnwrapPanics)

ConsumedSpec == Init /\ [][ConsumerNext]_vars /\ ConsumerFairness

\* The stream variables while no stream exists.
StreamNotCreated ==
    /\ endpoint = "accounts"
    /\ args = [limit |-> None, cursor |-> None]
    /\ pc = "created"
    /\ response = NoPage
    /\ requests = << >>
    /\ received = << >>
    /\ attempts = << >>
    /\ yielded = << >>
    /\ demands = 0

(***************************************************************************)
(* The OAuth2 flow: one behaviour of AuthSpec follows one OAuthCbClient    *)
(* from its construction, through the calls its owner and a CbClient       *)
(* borrowing it can make, to its end.                                      *)
(***************************************************************************)
\* The object's fields and the locals of the call in progress.
ovars == << phase, panic, redirect, scopes, access_token, refresh_token, csrf_state,
            authorize_url, borrowed >>

\* A panic: the operation does not return.  The OAuthCbClient it was called
\* on is dropped, with what it stored, and so is any CbClient borrowing it.
Panics(op, cause) ==
    /\ phase' = "panicked"
    /\ panic' = [op |-> op, cause |-> cause]
    /\ redirect' = None
    /\ scopes' = {}
    /\ access_token' = None
    /\ refresh_token' = None
    /\ csrf_state' = None
    /\ authorize_url' = None
    /\ borrowed' = FALSE

\* A constructor that starts with a token in the store.
new_access_token_preset == Some("a1")

\* Self { access_token: None, .. } in OAuthCbClient::new.
new_access_token == None

\* A scope check that lets every description pass.
add_scope_accepts_any(scope_description) == TRUE

\* assert!(VALID_SCOPES.contains(&scope_description))
add_scope_accepts(scope_description) == scope_description \in VALID_SCOPES

\* The callback handled without comparing its state with csrf_state.
callback_failure_unchecked(cb, csrf) ==
    IF ~cb.utf8 THEN "read_line failed"
    ELSE IF cb.tokens < 2 THEN "request line has no target"
    ELSE IF ~cb.parses THEN "Url::parse failed"
    ELSE IF find(cb.pairs, "code") = None THEN "no code"
    ELSE IF find(cb.pairs, "state") = None THEN "no state"
    ELSE IF ~cb.writable THEN "write_all failed"
    ELSE ""

\* Why handling an accepted connection panics, "" when it does not: the
\* unwraps on read_line, on the second token of the request line, on
\* Url::parse, on the code pair and on the state pair, the write of the
\* answer, then the assertion on the state.
callback_failure(cb, csrf) ==
    IF ~cb.utf8 THEN "read_line failed"
    ELSE IF cb.tokens < 2 THEN "request line has no target"
    ELSE IF ~cb.parses THEN "Url::parse failed"
    ELSE IF find(cb.pairs, "code") = None THEN "no code"
    ELSE IF find(cb.pairs, "state") = None THEN "no state"
    ELSE IF ~cb.writable THEN "write_all failed"
    ELSE IF find(cb.pairs, "state")[1] # csrf THEN "state is not csrf_state"
    ELSE ""

\* A store that forgets the refresh token of the response.
store_refresh_token_never(old, token_response) == old

\* if let Some(tok) = token_response.refresh_token() { self.refresh_token = Some(tok) }
store_refresh_token(old, token_response) ==
    IF IsSome(token_response.refresh_token) THEN token_response.refresh_token ELSE old

\* A revocation that always picks the access token.
token_to_revoke_access_only(refresh, access) ==
    IF IsSome(access) THEN Some(AccessTokenToRevoke(access[1])) ELSE None

\* match self.refresh_token.as_ref() { Some(token) => token.into(),
\*                                     None => self.access_token.as_ref().unwrap().into() }
\* None stands for the unwrap of an empty store.
token_to_revoke(refresh, access) ==
    IF IsSome(refresh) THEN Some(RefreshTokenToRevoke(refresh[1]))
    ELSE IF IsSome(access) THEN Some(AccessTokenToRevoke(access[1]))
    ELSE None

\* client.revoke_token(token).unwrap().request_async(..): a call to the
\* revocation endpoint.
revoke_token(token) ==
    [endpoint |-> "revoke", kind |-> token.kind, secret |-> token.secret]

RevokeCalls == SelectSeq(calls, LAMBDA c : c.endpoint = "revoke")
ExchangeCalls == SelectSeq(calls, LAMBDA c : c.endpoint = "token")

\* The revocation requests sent and not answered yet: revoke_access takes
\* &self, so several calls of it, and the requests of a CbClient, can be in
\* progress at once (futures joined by the caller).
PendingRevocations ==
    { c \in Range(RevokeCalls) :
        Cardinality({ i \in 1..Len(RevokeCalls) : RevokeCalls[i] = c })
        > Cardinality({ i \in 1..Len(revoked) : revoked[i].call = c }) }

\* add_scope(mut self, ..) and authorize_once(mut self: Self) take the
\* object by value: it can be moved into the call only while no CbClient
\* holds a reference to it.
owned == ~borrowed

\* OAuthCbClient::new
New ==
    /\ phase = "unbuilt"
    /\ \E text \in RedirectUrlTexts :
          LET url == RedirectUrl_new(text) IN
          IF IsOk(url)
          THEN /\ phase' = "idle"
               /\ redirect' = Some(url.val)
               /\ scopes' = {}
               /\ access_token' = new_access_token
               /\ refresh_token' = None
               /\ UNCHANGED << panic, csrf_state, authorize_url, borrowed >>
          ELSE Panics("new", "Invalid redirect_url")
    /\ UNCHANGED << authorizations, accept_errors, callbacks, calls, granted,
                    revoked, bearers >>
    /\ UNCHANGED << svars, cvars >>

\* OAuthCbClient::add_scope.  It takes the object by value: no CbClient
\* borrows it.
AddScope ==
    /\ phase = "idle" /\ owned
    /\ \E scope_description \in ScopeDescriptions :
          IF add_scope_accepts(scope_description)
          THEN /\ scopes' = scopes \cup { scope_description }
               /\ UNCHANGED << phase, panic, redirect, access_token, refresh_token,
                               csrf_state, authorize_url, borrowed >>
          ELSE Panics("add_scope", "assertion failed")
    /\ UNCHANGED << authorizations, accept_errors, callbacks, calls, granted,
                    revoked, bearers >>
    /\ UNCHANGED << svars, cvars >>

\* OAuthCbClient::authorize_once up to TcpListener::bind: the listener
\* address is taken from the redirect URL, the CSRF token is drawn, the
\* authorization URL is built and printed, the listener is bound.
AuthorizeOnce ==
    /\ phase = "idle" /\ owned
    /\ authorizations < MaxAuthorizations
    /\ IF ~IsSome(redirect[1].host) \/ ~IsSome(redirect[1].port)
       THEN /\ Panics("authorize_once", "redirect URL without host or port")
            /\ UNCHANGED << authorizations, accept_errors >>
       ELSE \E csrf \in CsrfTokens, bound \in BOOLEAN :
               IF bound
               THEN /\ phase' = "listening"
                    /\ csrf_state' = Some(csrf)
                    /\ authorize_url' = Some(authorize_url_of(scopes, csrf))
                    /\ authorizations' = authorizations + 1
                    /\ accept_errors' = 0
                    /\ UNCHANGED << panic, redirect, scopes, access_token,
                                    refresh_token, borrowed >>
               ELSE /\ Panics("authorize_once", "bind failed")
                    /\ UNCHANGED << authorizations, accept_errors >>
    /\ UNCHANGED << callbacks, calls, granted, revoked, bearers >>
    /\ UNCHANGED << svars, cvars >>

\* listener.incoming() yields an Err: if let Ok(..) skips it and the loop
\* waits for the next connection.
AcceptError ==
    /\ phase = "listening"
    /\ accept_errors < MaxAcceptErrors
    /\ accept_errors' = accept_errors + 1
    /\ UNCHANGED << ovars, authorizations, callbacks, calls, granted, revoked, bearers >>
    /\ UNCHANGED << svars, cvars >>

\* A listener that waits for another connection after a callback it cannot use.
AcceptRetrying ==
    /\ phase = "listening"
    /\ \E cb \in Callbacks :
          /\ callbacks' = Append(callbacks, [callback |-> cb, csrf_state |-> csrf_state[1]])
          /\ IF callback_failure(cb, csrf_state[1]) # ""
             THEN UNCHANGED << ovars, calls >>
             ELSE /\ phase' = "exchanging"
                  /\ calls' = Append(calls, exchange_code(find(cb.pairs, "code")[1]))
                  /\ UNCHANGED << panic, redirect, scopes, access_token, refresh_token,
                                  csrf_state, authorize_url, borrowed >>
    /\ UNCHANGED << authorizations, accept_errors, granted, revoked, bearers >>
    /\ UNCHANGED << svars, cvars >>

\* listener.incoming() yields a connection: the request line is read, the
\* code and the state are taken from it, the answer is written, the state is
\* compared, and the code is sent to the token endpoint.
Accept ==
    /\ phase = "listening"
    /\ \E cb \in Callbacks :
          /\ callbacks' = Append(callbacks, [callback |-> cb, csrf_state |-> csrf_state[1]])
          /\ IF callback_failure(cb, csrf_state[1]) # ""
             THEN /\ Panics("authorize_once", callback_failure(cb, csrf_state[1]))
                  /\ calls' = calls
             ELSE /\ phase' = "exchanging"
                  /\ calls' = Append(calls, exchange_code(find(cb.pairs, "code")[1]))
                  /\ UNCHANGED << panic, redirect, scopes, access_token, refresh_token,
                                  csrf_state, authorize_url, borrowed >>
    /\ UNCHANGED << authorizations, accept_errors, granted, revoked, bearers >>
    /\ UNCHANGED << svars, cvars >>

\* The token endpoint answers: the tokens are stored and authorize_once
\* returns the object, or token_response.unwrap() panics.
ExchangeDone ==
    /\ phase = "exchanging"
    /\ \E token_response \in TokenResponses(Len(granted) + 1) :
          IF IsOk(token_response)
          THEN /\ refresh_token' = store_refresh_token(refresh_token, token_response.val)
               /\ access_token' = Some(token_response.val.access_token)
               /\ granted' = Append(granted, token_response.val)
               /\ phase' = "idle"
               /\ csrf_state' = None
               /\ authorize_url' = None
               /\ accept_errors' = 0
               /\ UNCHANGED << panic, redirect, scopes, borrowed >>
          ELSE /\ Panics("authorize_once", "token exchange failed")
               /\ UNCHANGED << granted, accept_errors >>
    /\ UNCHANGED << authorizations, callbacks, calls, revoked, bearers >>
    /\ UNCHANGED << svars, cvars >>

\* OAuthCbClient::revoke_access up to the await: the token is chosen and the
\* revocation request is sent.  It takes &self: a CbClient may hold the
\* object too, and another revoke_access may be waiting for its answer.
RevokeAccess ==
    /\ phase \in { "idle", "revoking" }
    /\ Len(RevokeCalls) < MaxRevocations
    /\ IF token_to_revoke(refresh_token, access_token) = None
       THEN /\ Panics("revoke_access", "unwrap on an empty store")
            /\ calls' = calls
       ELSE /\ phase' = "revoking"
            /\ calls' = Append(calls, revoke_token(token_to_revoke(refresh_token,
                                                                   access_token)[1]))
            /\ UNCHANGED << panic, redirect, scopes, access_token, refresh_token,
                            csrf_state, authorize_url, borrowed >>
    /\ UNCHANGED << authorizations, accept_errors, callbacks, granted, revoked, bearers >>
    /\ UNCHANGED << svars, cvars >>

\* A revoke_access that empties the store once the revocation succeeded.
RevokeDoneErasing ==
    /\ phase = "revoking"
    /\ \E call \in PendingRevocations, ok \in BOOLEAN :
          IF ok
          THEN /\ phase' = IF Len(RevokeCalls) = Len(revoked) + 1 THEN "idle"
                           ELSE "revoking"
               /\ revoked' = Append(revoked, [call |-> call, grants |-> Len(granted)])
               /\ access_token' = None
               /\ refresh_token' = None
               /\ UNCHANGED << panic, redirect, scopes, csrf_state, authorize_url, borrowed >>
          ELSE /\ Panics("revoke_access", "Failed to revoke token")
               /\ revoked' = revoked
    /\ UNCHANGED << authorizations, accept_errors, callbacks, calls, granted, bearers >>
    /\ UNCHANGED << svars, cvars >>

\* The revocation endpoint answers one of the requests waiting: that
\* revoke_access returns, or expect("Failed to revoke token") panics.  The
\* object is between calls again once no revoke_access is waiting.
RevokeDone ==
    /\ phase = "revoking"
    /\ \E call \in PendingRevocations, ok \in BOOLEAN :
          IF ok
          THEN /\ phase' = IF Len(RevokeCalls) = Len(revoked) + 1 THEN "idle"
                           ELSE "revoking"
               /\ revoked' = Append(revoked, [call |-> call, grants |-> Len(granted)])
               /\ UNCHANGED << panic, redirect, scopes, access_token, refresh_token,
                               csrf_state, authorize_url, borrowed >>
          ELSE /\ Panics("revoke_access", "Failed to revoke token")
               /\ revoked' = revoked
    /\ UNCHANGED << authorizations, accept_errors, callbacks, calls, granted, bearers >>
    /\ UNCHANGED << svars, cvars >>

\* CbClient::new(&oauth_cb_client): any OAuthCbClient is accepted, also one
\* whose revoke_access is waiting for its answer.
CbClientNew ==
    /\ phase \in { "idle", "revoking" } /\ ~borrowed
    /\ borrowed' = TRUE
    /\ UNCHANGED << phase, panic, redirect, scopes, access_token, refresh_token,
                    csrf_state, authorize_url >>
    /\ UNCHANGED << authorizations, accept_errors, callbacks, calls, granted,
                    revoked, bearers >>
    /\ UNCHANGED << svars, cvars >>

\* The CbClient goes out of scope and the borrow ends.
CbClientDrop ==
    /\ phase \in { "idle", "revoking" } /\ borrowed
    /\ borrowed' = FALSE
    /\ UNCHANGED << phase, panic, redirect, scopes, access_token, refresh_token,
                    csrf_state, authorize_url >>
    /\ UNCHANGED << authorizations, accept_errors, callbacks, calls, granted,
                    revoked, bearers >>
    /\ UNCHANGED << svars, cvars >>

\* An access_token() that answers from a token of its own.
AccessTokenProvider_access_token_fixed(stored) == Some("a0")

\* AccessTokenProvider::access_token for OAuthCbClient:
\* self.access_token.clone().unwrap(); None stands for the unwrap panicking.
AccessTokenProvider_access_token(stored) == stored

\* CbClient::get and CbClient::post up to send():
\* .bearer_auth(self.access_token_provider.access_token().secret()).
\* Each request of a paginated stream passes here.  The request may be sent
\* while a revoke_access is waiting for its answer.
BearerAuth ==
    /\ phase \in { "idle", "revoking" } /\ borrowed
    /\ Len(bearers) < MaxBearers
    /\ IF AccessTokenProvider_access_token(access_token) = None
       THEN /\ Panics("access_token", "unwrap on an empty store")
            /\ bearers' = bearers
       ELSE /\ bearers' = Append(bearers,
                     [secret |-> AccessTokenProvider_access_token(access_token)[1],
                      grants |-> Len(granted), revocations |-> Len(revoked)])
            /\ UNCHANGED ovars
    /\ UNCHANGED << authorizations, accept_errors, callbacks, calls, granted, revoked >>
    /\ UNCHANGED << svars, cvars >>

\* No OAuthCbClient yet, and no stream.
AuthInit ==
    /\ phase = "unbuilt"
    /\ panic = NoPanic
    /\ redirect = None
    /\ scopes = {}
    /\ access_token = None
    /\ refresh_token = None
    /\ csrf_state = None
    /\ authorize_url = None
    /\ borrowed = FALSE
    /\ authorizations = 0
    /\ accept_errors = 0
    /\ callbacks = << >>
    /\ calls = << >>
    /\ granted = << >>
    /\ revoked = << >>
    /\ bearers = << >>
    /\ StreamNotCreated
    /\ NoCall

AuthNext ==
    \/ New \/ AddScope \/ AuthorizeOnce \/ AcceptError \/ Accept \/ ExchangeDone
    \/ RevokeAccess \/ RevokeDone \/ CbClientNew \/ CbClientDrop \/ BearerAuth

AuthSpec == AuthInit /\ [][AuthNext]_vars

(***************************************************************************)
(* The calls that are no streams.  One behaviour of CallSpec follows one   *)
(* call from its arguments to its result, on a token store already         *)
(* authorized.                                                             *)
(***************************************************************************)
\* CbClient::post: as get, with a JSON object sent along.
post(T, object, outcome) ==
    IF outcome.kind = "transport"
    THEN [result |-> Err(Http), attempts |-> << >>]
    ELSE unpack_response(T, outcome.text)

\* The HTTP statuses a response may carry.
Statuses == { 200, 401, 500 }

\* A response: a status and a body.
Response(status, text) == [kind |-> "body", status |-> status, text |-> text]
TransportFailure == [kind |-> "transport", text |-> Garbage]

\* The JSON values followed for a member of a Product.
JsonValues == { Missing, JsonNull, JsonString(""), JsonString("6"), JsonString("-99.4"),
                JsonString("9%"), JsonNumber("6") }

\* The body of a Product with the given values for its four members.
ProductBody(price, price_change, volume, volume_change) ==
    [json |-> TRUE,
     has |-> { "product_id" }
             \cup (IF price = Missing THEN {} ELSE { "price" })
             \cup (IF price_change = Missing THEN {}
                   ELSE { "price_percentage_change_24h" })
             \cup (IF volume = Missing THEN {} ELSE { "volume_24h" })
             \cup (IF volume_change = Missing THEN {}
                   ELSE { "volume_percentage_change_24h" }),
     bad |-> {},
     product_id |-> "BAT-ETH",
     price |-> price,
     price_percentage_change_24h |-> price_change,
     volume_24h |-> volume,
     volume_percentage_change_24h |-> volume_change]

ProductBodies == { ProductBody(a, b, c, d) : a \in JsonValues, b \in JsonValues,
                                             c \in JsonValues, d \in JsonValues }

\* The body of test_product_deserialize: an empty price, no
\* price_percentage_change_24h, two decimals.
TestProduct == ProductBody(JsonString(""), Missing, JsonString("6"), JsonString("-99.4"))

\* The bodies of a ProductsResponse followed: no product, the product of the
\* test, and the same with a null price behind it; num_products is the
\* number of the products or another number.
ProductsBodies ==
    UNION { { Body(Range(ProductsResponse), {},
                   [items |-> ps, has_next |-> FALSE, cursor |-> ""], NoError)
              @@ [num_products |-> n] : n \in { Len(ps), 5 } } :
            ps \in { << >>, << TestProduct >>,
                     << TestProduct,
                        ProductBody(JsonNull, Missing, JsonString("6"), Missing) >> } }

\* The bodies of a TransactionsSummary followed: each with every member but
\* some of margin_rate, goods_and_services_tax and coinbase_pro_fees.
TransactionsSummaryBodies ==
    { Body(Range(TransactionsSummary) \ absent, {}, NoPage, NoError) :
        absent \in SUBSET { "margin_rate", "goods_and_services_tax",
                            "coinbase_pro_fees" } }

OptionOf(S) == { None } \cup { Some(x) : x \in S }

\* The arguments of list_orders followed.
ListOrdersArgs ==
    [product_id : OptionOf({ "BTC-USD" }),
     order_status : OptionOf({ << >>, << "Filled", "Open" >> }),
     limit : OptionOf({ 4 }),
     start_date : OptionOf(DateTimes),
     end_date : OptionOf({ EndDate }),
     deprecated_user_native_currency : OptionOf({ "USD" }),
     order_type : OptionOf({ "StopLimitOrderType" }),
     order_side : OptionOf({ "Buy" }),
     cursor : OptionOf({ "c0" }),
     product_type : OptionOf({ "Spot" }),
     order_placement_source : OptionOf({ "RetailSimple" }),
     contract_expiry_type : OptionOf({ "Expiring", "UnknownRiskManagementType" })]

\* The arguments of list_fills followed.
ListFillsArgs ==
    [order_id : OptionOf({ "o1" }),
     product_id : OptionOf({ "BTC-USD" }),
     start_sequence_timestamp : OptionOf(DateTimes),
     end_sequence_timestamp : OptionOf(DateTimes),
     limit : OptionOf({ 4 }),
     cursor : OptionOf({ "c0" })]

\* The arguments of list_products followed.
ListProductsArgs ==
    [limit : OptionOf({ 4 }),
     offset : OptionOf({ 4 }),
     product_type : OptionOf({ "Spot", "Future" }),
     product_ids : OptionOf({ << >>, << "BTC-USD", "ETH-USD" >> }),
     contract_expiry_type : OptionOf({ "Expiring", "UnknownRiskManagementType" })]

\* The arguments of get_transactions_summary followed.
TransactionsSummaryArgs ==
    [start_date : OptionOf(DateTimes),
     end_date : OptionOf(DateTimes),
     user_native_currency : OptionOf({ "USD" }),
     product_type : OptionOf({ "Spot", "Future" }),
     contract_expiry_type : OptionOf({ "Expiring", "UnknownRiskManagementType" })]

\* Texts that are the serde name of no variant.
NoSerdeNames == { "", "Open", "open", "stop_limit", "STOP_LIMIT_ORDER_TYPE", "STOPLIMIT" }

\* The texts read back into an enum: every serde name of every enum, and
\* the texts that are none.
EnumTexts ==
    UNION { { SerdeNames[enum][variant] : variant \in Range(VariantsOf(enum)) } :
               enum \in Enums }
    \cup NoSerdeNames

Ops == { "get", "post", "get_product", "list_products", "get_transactions_summary",
         "get_list_orders_uri", "get_list_fills_uri", "to_string", "from_str" }

\* What one call is followed on.
InputsOf(o) ==
    CASE o \in { "get", "post" } ->
            UNION { { [T |-> SchemaOf(ep), text |-> b, status |-> s, other_status |-> t] :
                        b \in Bodies(SchemaOf(ep)), s \in Statuses, t \in Statuses } :
                    ep \in Endpoints }
      [] o = "get_product" ->
            { [product_id |-> "BAT-ETH", outcome |-> x] :
                x \in { TransportFailure }
                      \cup { Response(200, b) : b \in ProductBodies \cup { Garbage } }
                      \cup { Response(401, b) : b \in ErrorBodies } }
      [] o = "list_products" ->
            { [args |-> a, outcome |-> x] :
                a \in ListProductsArgs,
                x \in { TransportFailure }
                      \cup { Response(200, b) : b \in ProductsBodies }
                      \cup { Response(401, b) : b \in ErrorBodies } }
      [] o = "get_transactions_summary" ->
            { [args |-> a, outcome |-> x] :
                a \in TransactionsSummaryArgs,
                x \in { TransportFailure }
                      \cup { Response(200, b) : b \in TransactionsSummaryBodies }
                      \cup { Response(401, b) : b \in ErrorBodies } }
      [] o = "get_list_orders_uri" -> { [args |-> a] : a \in ListOrdersArgs }
      [] o = "get_list_fills_uri" -> { [args |-> a] : a \in ListFillsArgs }
      [] o = "to_string" ->
            UNION { { [enum |-> e, variant |-> v] : v \in Range(VariantsOf(e)) } :
                    e \in Enums }
      [] o = "from_str" -> { [enum |-> e, text |-> t] : e \in Enums, t \in EnumTexts }

\* CbClient::get, followed under two responses that have the same body and
\* the statuses given: the results of both.
Get ==
    /\ operation = "get"
    /\ output = None
    /\ output' = Some(<< get(input.T, Response(input.status, input.text)).result,
                         get(input.T, Response(input.other_status, input.text)).result >>)
    /\ UNCHANGED << operation, input, svars, avars >>

\* CbClient::post, followed in the same way.
Post ==
    /\ operation = "post"
    /\ output = None
    /\ output' =
          Some(<< post(input.T, "object", Response(input.status, input.text)).result,
                  post(input.T, "object",
                       Response(input.other_status, input.text)).result >>)
    /\ UNCHANGED << operation, input, svars, avars >>

\* CbClient::get_product: the request and the Product read from its answer.
GetProduct ==
    /\ operation = "get_product"
    /\ output = None
    /\ output' = Some([uri |-> [path |-> "/brokerage/products/" \o input.product_id,
                                query |-> << >>],
                       result |-> get(Product, input.outcome).result])
    /\ UNCHANGED << operation, input, svars, avars >>

\* CbClient::list_products: the request, and the products of the response.
ListProducts ==
    /\ operation = "list_products"
    /\ output = None
    /\ LET a == input.args
           products_response == get(ProductsResponse, input.outcome).result
       IN output' = Some([uri |-> list_products_args(a.limit, a.offset, a.product_type,
                                                     a.product_ids,
                                                     a.contract_expiry_type),
                          result |-> IF IsOk(products_response)
                                     THEN Ok(products_response.val.products)
                                     ELSE products_response])
    /\ UNCHANGED << operation, input, svars, avars >>

\* CbClient::get_transactions_summary: the request and the summary.
GetTransactionsSummary ==
    /\ operation = "get_transactions_summary"
    /\ output = None
    /\ LET a == input.args
       IN output' = Some([uri |-> get_transactions_summary_args(
                                     a.start_date, a.end_date, a.user_native_currency,
                                     a.product_type, a.contract_expiry_type),
                          result |-> get(TransactionsSummary, input.outcome).result])
    /\ UNCHANGED << operation, input, svars, avars >>

\* CbClient::get_list_orders_uri
GetListOrdersUri ==
    /\ operation = "get_list_orders_uri"
    /\ output = None
    /\ LET a == input.args
       IN output' = Some([uri |-> get_list_orders_uri(
                                     a.product_id, a.order_status, a.limit,
                                     a.start_date, a.end_date,
                                     a.deprecated_user_native_currency, a.order_type,
                                     a.order_side, a.cursor, a.product_type,
                                     a.order_placement_source,
                                     a.contract_expiry_type)])
    /\ UNCHANGED << operation, input, svars, avars >>

\* CbClient::get_list_fills_uri
GetListFillsUri ==
    /\ operation = "get_list_fills_uri"
    /\ output = None
    /\ LET a == input.args
       IN output' = Some([uri |-> get_list_fills_uri(
                                     a.order_id, a.product_id,
                                     a.start_sequence_timestamp,
                                     a.end_sequence_timestamp, a.limit, a.cursor)])
    /\ UNCHANGED << operation, input, svars, avars >>

\* to_string, or serde_json::to_string, of a variant of an enum.
EnumToString ==
    /\ operation = "to_string"
    /\ output = None
    /\ output' = Some(enum_to_string(input.enum, input.variant))
    /\ UNCHANGED << operation, input, svars, avars >>

\* from_str, or serde_json::from_str, of a text into an enum.
EnumFromStr ==
    /\ operation = "from_str"
    /\ output = None
    /\ output' = Some(enum_from_str(input.enum, input.text))
    /\ UNCHANGED << operation, input, svars, avars >>

CallInit ==
    /\ operation \in Ops
    /\ input \in InputsOf(operation)
    /\ output = None
    /\ StreamNotCreated
    /\ ProviderAuthorized

CallNext ==
    \/ Get \/ Post \/ GetProduct \/ ListProducts \/ GetTransactionsSummary
    \/ GetListOrdersUri \/ GetListFillsUri \/ EnumToString \/ EnumFromStr

CallSpec == CallInit /\ [][CallNext]_vars

(***************************************************************************)
(* Vocabulary of the properties.                                           *)
(***************************************************************************)
T == SchemaOf(endpoint)
NReceived == Len(received)
LastText == received[NReceived].text

\* The k-th outcome is a body that satisfies the success schema.
Successful(k) == received[k].kind = "body" /\ IsOk(from_str(T, received[k].text))

\* The page the k-th outcome holds (for a successful one).
PageOf(k) == from_str(T, received[k].text).val

\* The cursor parameter of the i-th request, as an Option.
CursorParam(i) == ValuesOf(requests[i].query, "cursor")

(***************************************************************************)
(* C1: a body that parses as the success type T is returned as Ok(the      *)
(* parsed value), also when it parses as a CbRequestError too; the body is *)
(* parsed against T first and against nothing else.                        *)
(***************************************************************************)
C1_SuccessParseWins ==
    (NReceived > 0 /\ received[NReceived].kind = "body"
       /\ IsOk(from_str(T, LastText)))
    => /\ attempts = << T >>
       /\ response = [items |-> LastText.items,
                      has_next |-> IF endpoint = "fills" THEN FALSE ELSE LastText.has_next,
                      cursor |-> LastText.cursor]
       /\ yielded[NReceived] = Ok(LastText.items)

C1_Witness ==
    /\ NReceived > 0 /\ received[NReceived].kind = "body"
    /\ IsOk(from_str(T, LastText))
    /\ IsOk(from_str(CbRequestError, LastText))
    /\ attempts = << T >>
    /\ pc = "yielded"

(***************************************************************************)
(* C2: a body that does not parse as T and parses as a service error is    *)
(* returned as Err(Coinbase(e)), e carrying the body's error, code and     *)
(* message; never as Ok, Serde or Http.                                    *)
(***************************************************************************)
C2_ServiceErrorDecoded ==
    (NReceived > 0 /\ received[NReceived].kind = "body"
       /\ ~IsOk(from_str(T, LastText))
       /\ IsOk(from_str(CbRequestError, LastText)))
    => /\ yielded[NReceived].tag = "Err"
       /\ yielded[NReceived].err.variant = "Coinbase"
       /\ yielded[NReceived].err.e = [error |-> LastText.error,
                                      code |-> LastText.code,
                                      message |-> LastText.message]
       /\ attempts = << T, CbRequestError >>

C2_Witness ==
    /\ NReceived > 0 /\ received[NReceived].kind = "body"
    /\ ~IsOk(from_str(T, LastText))
    /\ IsOk(from_str(CbRequestError, LastText))
    /\ LastText.code = 7
    /\ pc = "errored"

(***************************************************************************)
(* C3: a body that parses neither as T nor as a service error is returned  *)
(* as Err(Serde(d)), d being the failure of the parse against T.           *)
(***************************************************************************)
C3_DecodeErrorKeepsFirstFailure ==
    (NReceived > 0 /\ received[NReceived].kind = "body"
       /\ ~IsOk(from_str(T, LastText))
       /\ ~IsOk(from_str(CbRequestError, LastText)))
    => /\ yielded[NReceived].tag = "Err"
       /\ yielded[NReceived].err.variant = "Serde"
       /\ yielded[NReceived].err.detail = from_str(T, LastText).err

C3_Witness ==
    /\ NReceived > 0 /\ received[NReceived].kind = "body"
    /\ ~IsOk(from_str(T, LastText))
    /\ ~IsOk(from_str(CbRequestError, LastText))
    /\ from_str(T, LastText).err # from_str(CbRequestError, LastText).err
    /\ pc = "errored"

\* The outcomes received are n successful pages.
AllSuccessful == \A k \in 1..NReceived : Successful(k)

\* The parses of the first n outcomes against T, in order.  The properties
\* below bind Parsed once per state and read the pages from it.
RECURSIVE ParsedUpTo(_)
ParsedUpTo(n) ==
    IF n = 0 THEN << >>
    ELSE Append(ParsedUpTo(n - 1), from_str(T, received[n].text))

Parsed == ParsedUpTo(NReceived)

\* With p = Parsed: the k-th outcome is a successful page.
Good(p, k) == received[k].kind = "body" /\ IsOk(p[k])

\* With p = Parsed: the batches of the first n outcomes, as the stream
\* should yield them.
BatchesOf(p, n) == [k \in 1..n |-> Ok(p[k].val.items)]

\* The outcomes received so far are the first pages of a Variant A script:
\* all successful, has_next true in every page but possibly the last.
VariantAScript(p) ==
    /\ endpoint \in { "accounts", "orders" }
    /\ NReceived >= 1
    /\ \A k \in 1..NReceived : Good(p, k)
    /\ \A k \in 1..(NReceived - 1) : p[k].val.has_next

(***************************************************************************)
(* C4: list_accounts and list_orders, against n successful responses with  *)
(* has_next true in the first n-1 and false in the n-th: exactly n         *)
(* requests, the n batches in response order, no further request, and the  *)
(* stream ends on the next demand without an error element.                *)
(***************************************************************************)
C4_VariantATerminates ==
    LET p == Parsed IN
    VariantAScript(p)
    => /\ yielded = BatchesOf(p, NReceived)
       /\ IF p[NReceived].val.has_next
          THEN \* the script goes on: the stream neither ends nor skips a request
               /\ pc \in { "yielded", "inflight", "dropped" }
               /\ Len(requests) \in { NReceived, NReceived + 1 }
               /\ pc = "yielded"
                  => /\ Len(requests) = NReceived
                     /\ ~ENABLED Finish
                     /\ Len(requests) < MaxPages => ENABLED Resume
          ELSE \* the n-th response: n requests, and the stream ends
               /\ Len(requests) = NReceived
               /\ pc \in { "yielded", "done", "dropped" }
               /\ ~ENABLED Resume
               /\ pc = "yielded" => ENABLED Finish

C4_Witness ==
    /\ endpoint \in { "accounts", "orders" }
    /\ NReceived = 3
    /\ AllSuccessful
    /\ PageOf(1).has_next /\ PageOf(2).has_next /\ ~PageOf(3).has_next
    /\ Len(requests) = 3
    /\ Len(yielded) = 3
    /\ pc = "done"

\* The outcomes received so far are the first pages of a Variant B script.
VariantBScript(p) ==
    /\ endpoint = "fills"
    /\ NReceived >= 1
    /\ \A k \in 1..NReceived : Good(p, k)
    /\ \A k \in 1..(NReceived - 1) : p[k].val.cursor # ""

(***************************************************************************)
(* C5: list_fills, against n successful responses with a non-empty cursor  *)
(* in the first n-1 and an empty cursor in the n-th: exactly n requests,   *)
(* the n batches in response order, and the stream ends once the response  *)
(* with the empty cursor has been yielded.                                 *)
(***************************************************************************)
C5_VariantBTerminates ==
    LET p == Parsed IN
    VariantBScript(p)
    => /\ yielded = BatchesOf(p, NReceived)
       /\ IF p[NReceived].val.cursor # ""
          THEN /\ pc \in { "yielded", "inflight", "dropped" }
               /\ Len(requests) \in { NReceived, NReceived + 1 }
               /\ pc = "yielded"
                  => /\ Len(requests) = NReceived
                     /\ ~ENABLED Finish
                     /\ Len(requests) < MaxPages => ENABLED Resume
          ELSE /\ Len(requests) = NReceived
               /\ pc \in { "yielded", "done", "dropped" }
               /\ ~ENABLED Resume
               /\ pc = "yielded" => ENABLED Finish

C5_Witness ==
    /\ endpoint = "fills"
    /\ NReceived = 3
    /\ AllSuccessful
    /\ PageOf(1).cursor = "c1" /\ PageOf(2).cursor = "c2" /\ PageOf(3).cursor = ""
    /\ Len(requests) = 3
    /\ Len(yielded) = 3
    /\ pc = "done"

(***************************************************************************)
(* C6: when the k-th request fails (transport, decode or service error),   *)
(* the stream's k-th and last element is that error, the k-1 batches       *)
(* before it stand, no request follows and the stream then ends.           *)
(***************************************************************************)
C6_ErrorIsTerminalElement ==
    LET p == Parsed IN
    \A k \in 1..NReceived :
        ~Good(p, k)
        => /\ k = NReceived
           /\ Len(requests) = k
           /\ Len(yielded) = k
           /\ yielded[k] = Err(get(T, received[k]).result.err)
           /\ \A i \in 1..(k - 1) : Good(p, i) /\ yielded[i] = Ok(p[i].val.items)
           /\ pc \in { "errored", "done", "dropped" }
           /\ ~ENABLED Start /\ ~ENABLED Resume /\ ~ENABLED Receive
           /\ pc = "errored" => ENABLED FinishAfterError

C6_Witness ==
    /\ NReceived = 3
    /\ Successful(1) /\ Successful(2) /\ ~Successful(3)
    /\ Len(yielded) = 3
    /\ IsOk(yielded[1]) /\ IsOk(yielded[2])
    /\ yielded[3].tag = "Err"
    /\ yielded[3].err.variant = "Coinbase"
    /\ pc = "done"

(***************************************************************************)
(* C7: requests are strictly sequential: request i+1 is issued only after  *)
(* response i was received, and its cursor parameter is the cursor of      *)
(* response i.                                                             *)
(***************************************************************************)
C7_CursorChaining ==
    LET p == Parsed IN
    /\ Len(requests) - NReceived \in { 0, 1 }
    /\ \A i \in 1..(Len(requests) - 1) :
          /\ i <= NReceived
          /\ Good(p, i)
          /\ CursorParam(i + 1) = Some(p[i].val.cursor)

C7_Witness ==
    /\ Len(requests) = 3
    /\ NReceived = 2
    /\ args.cursor = Some("c0")
    /\ PageOf(1).cursor = "c2" /\ PageOf(2).cursor = "c1"
    /\ CursorParam(3) = Some("c1")

(***************************************************************************)
(* C8 as stated: whatever the caller's arguments, the initial request is   *)
(* issued on first demand with no cursor, and its item batch is the first  *)
(* element yielded.                                                        *)
(***************************************************************************)
C8_InitialRequestHasNoCursor ==
    /\ pc = "created" => requests = << >>
    /\ Len(requests) >= 1
       => /\ demands >= 1
          /\ CursorParam(1) = None
          /\ (NReceived >= 1 /\ Successful(1)) => yielded[1] = Ok(PageOf(1).items)

(***************************************************************************)
(* C8 amended: the initial request is issued on first demand with exactly  *)
(* the cursor the caller passed (none when the caller passed None) and the *)
(* caller's limit; when that request succeeds its item batch is the first  *)
(* element yielded.                                                        *)
(***************************************************************************)
C8_InitialRequestHasCallerCursor ==
    /\ pc = "created" => requests = << >> /\ demands = 0
    /\ Len(requests) >= 1
       => /\ demands >= 1
          /\ CursorParam(1) = args.cursor
          /\ ValuesOf(requests[1].query, "limit") = OptIntToString(args.limit)
          /\ (NReceived >= 1 /\ Successful(1)) => yielded[1] = Ok(PageOf(1).items)

C8_Witness ==
    /\ args.cursor = Some("c0")
    /\ Len(requests) >= 1
    /\ CursorParam(1) = Some("c0")
    /\ Len(yielded) >= 1
    /\ IsOk(yielded[1])

(***************************************************************************)
(* C9: no request before the first demand, at most one request per demand, *)
(* never two requests in flight; a consumer that stops after k elements    *)
(* has caused k requests, and a dropped stream issues none.                *)
(***************************************************************************)
C9_NoPrefetch ==
    /\ Len(requests) <= demands
    /\ Len(requests) - NReceived \in { 0, 1 }
    /\ pc \in { "created", "yielded", "errored", "done" } => Len(requests) = NReceived
    /\ pc \in { "yielded", "errored" } => Len(requests) = Len(yielded)
    /\ pc = "dropped" => ~ENABLED Next

C9_Witness ==
    /\ pc = "dropped"
    /\ Len(yielded) = 2
    /\ IsOk(yielded[2])
    /\ continue(endpoint, response)
    /\ Len(requests) = 2
    /\ demands = 2

\* The items of the Ok elements among the first n yielded, concatenated.
RECURSIVE ItemsYielded(_)
ItemsYielded(n) ==
    IF n = 0 THEN << >>
    ELSE ItemsYielded(n - 1) \o (IF IsOk(yielded[n]) THEN yielded[n].val ELSE << >>)

\* With p = Parsed: the items of the successful pages among the first n
\* received, concatenated.
RECURSIVE ItemsReceived(_, _)
ItemsReceived(p, n) ==
    IF n = 0 THEN << >>
    ELSE ItemsReceived(p, n - 1) \o (IF Good(p, n) THEN p[n].val.items ELSE << >>)

(***************************************************************************)
(* C10: every Ok element is the item list of one successful response, in   *)
(* request order, empty pages included; the concatenation of the batches   *)
(* yielded is the concatenation of the items of the pages received.        *)
(***************************************************************************)
C10_BatchGranularity ==
    LET p == Parsed IN
    /\ Len(yielded) = NReceived
    /\ \A k \in 1..NReceived :
          /\ Good(p, k) <=> IsOk(yielded[k])
          /\ Good(p, k) => yielded[k].val = p[k].val.items
    /\ ItemsYielded(Len(yielded)) = ItemsReceived(p, NReceived)

C10_Witness ==
    /\ pc = "done"
    /\ Len(yielded) = 2
    /\ IsOk(yielded[1]) /\ IsOk(yielded[2])
    /\ Len(yielded[1].val) = 4
    /\ Len(yielded[2].val) = 2
    /\ Len(ItemsYielded(2)) = 6


(***************************************************************************)
(* C11: each endpoint keeps its own stop rule.  After a page was yielded,  *)
(* list_accounts and list_orders go on exactly when the page's has_next is *)
(* true, whatever its cursor (also on an empty cursor, and they stop on    *)
(* has_next false with a cursor present); list_fills goes on exactly when  *)
(* the page's cursor is not empty, whatever has_next member the body has.  *)
(***************************************************************************)
C11_PerEndpointStopRule ==
    pc = "yielded" =>
       LET goesOn == IF endpoint = "fills" THEN LastText.cursor # ""
                     ELSE LastText.has_next
       IN /\ ENABLED Finish <=> ~goesOn
          /\ Len(requests) < MaxPages => (ENABLED Resume <=> goesOn)

C11_Witness ==
    /\ endpoint = "orders"
    /\ NReceived = 2 /\ Len(requests) = 2 /\ pc = "done"
    /\ Successful(1) /\ PageOf(1).has_next /\ PageOf(1).cursor = ""
    /\ Successful(2) /\ ~PageOf(2).has_next /\ PageOf(2).cursor # ""
    /\ Len(yielded) = 2

(***************************************************************************)
(* Vocabulary of the properties of the OAuth2 flow.                        *)
(***************************************************************************)
\* The i-th accepted connection carried a request line that could be read,
\* with a target that makes a URL whose query holds a code and a state.
HasCodeAndState(i) ==
    /\ callbacks[i].callback.utf8
    /\ callbacks[i].callback.tokens >= 2
    /\ callbacks[i].callback.parses
    /\ \E k \in 1..Len(callbacks[i].callback.pairs) :
          callbacks[i].callback.pairs[k][1] = "code"
    /\ \E k \in 1..Len(callbacks[i].callback.pairs) :
          callbacks[i].callback.pairs[k][1] = "state"

StateOf(i) == find(callbacks[i].callback.pairs, "state")[1]
CodeOf(i) == find(callbacks[i].callback.pairs, "code")[1]

Matching(i) == HasCodeAndState(i) /\ StateOf(i) = callbacks[i].csrf_state

\* The access token in the store is the one of the latest granted exchange.
StoreHoldsLatestGrant ==
    /\ Len(granted) > 0
    /\ access_token = Some(granted[Len(granted)].access_token)

(***************************************************************************)
(* C12: a call to the token endpoint is issued only for an accepted        *)
(* callback that holds a code and a state, the state being the CSRF token  *)
(* of that authorize_once, and it sends that callback's code; a callback   *)
(* with another state, or without code or state, or whose request line     *)
(* cannot be read or names no URL, ends authorize_once in a panic with no  *)
(* call to the token endpoint.                                             *)
(***************************************************************************)
C12_ExchangeOnlyAfterMatchingCallback ==
    /\ Len(ExchangeCalls) <= Len(callbacks)
    /\ \A i \in 1..Len(ExchangeCalls) :
          Matching(i) /\ ExchangeCalls[i].secret = CodeOf(i)
    /\ \A i \in 1..Len(callbacks) :
          ~Matching(i) => /\ i = Len(callbacks)
                          /\ phase = "panicked"
                          /\ panic.op = "authorize_once"
                          /\ Len(ExchangeCalls) = i - 1

C12_Witness ==
    /\ Len(callbacks) = 2
    /\ Matching(1)
    /\ HasCodeAndState(2) /\ StateOf(2) # callbacks[2].csrf_state
    /\ callbacks[2].callback.writable
    /\ Len(ExchangeCalls) = 1
    /\ phase = "panicked"

(***************************************************************************)
(* C13: fail closed.  An authorize_once that panics leaves no stored       *)
(* access or refresh token; nothing is stored before the first exchange    *)
(* succeeds; and whenever an access token is stored, it is the one of a    *)
(* granted exchange, each granted exchange having followed a callback      *)
(* whose state matched.                                                    *)
(***************************************************************************)
C13_FailClosed ==
    /\ panic.op = "authorize_once" => (access_token = None /\ refresh_token = None)
    /\ Len(granted) = 0 => (access_token = None /\ refresh_token = None)
    /\ IsSome(access_token) =>
          /\ StoreHoldsLatestGrant
          /\ Len(granted) <= Len(ExchangeCalls)
          /\ \A i \in 1..Len(granted) : Matching(i)
    /\ IsSome(refresh_token) => IsSome(access_token)

C13_Witness ==
    /\ panic = [op |-> "authorize_once", cause |-> "token exchange failed"]
    /\ Len(callbacks) = 1 /\ Matching(1)
    /\ Len(ExchangeCalls) = 1
    /\ granted = << >>
    /\ access_token = None

(***************************************************************************)
(* C14: the callback listener is one-shot.  An authorize_once that has     *)
(* bound its listener waits until a connection is accepted, handles        *)
(* exactly one accepted connection, and accepts none after it, whether     *)
(* the call then returns or panics; a failed accept is not a connection.   *)
(***************************************************************************)
C14_OneShotListener ==
    /\ Len(callbacks) <= authorizations
    /\ phase = "listening" => (Len(callbacks) = authorizations - 1 /\ ENABLED Accept)
    /\ phase \in { "exchanging", "idle", "revoking" } => Len(callbacks) = authorizations
    /\ Len(callbacks) = authorizations => ~ENABLED Accept

C14_Witness ==
    /\ authorizations = 2
    /\ accept_errors = 1
    /\ Len(callbacks) = 2
    /\ Matching(1) /\ ~Matching(2)
    /\ phase = "panicked"

(***************************************************************************)
(* C15: after the first successful exchange of an OAuthCbClient, and until *)
(* a further one, the stored access token is the one of the token          *)
(* response, the stored refresh token is the response's (none when the     *)
(* response has none), access_token() returns that access token and it is  *)
(* the bearer token of every request made meanwhile.                       *)
(***************************************************************************)
C15_TokensStoredFromResponse ==
    (Len(granted) = 1 /\ phase # "panicked") =>
       /\ access_token = Some(granted[1].access_token)
       /\ refresh_token = granted[1].refresh_token
       /\ AccessTokenProvider_access_token(access_token) = Some(granted[1].access_token)
       /\ \A i \in 1..Len(bearers) : bearers[i].secret = granted[1].access_token

C15_Witness ==
    /\ Len(granted) = 1 /\ phase = "idle"
    /\ IsSome(granted[1].refresh_token)
    /\ refresh_token = granted[1].refresh_token
    /\ Len(bearers) = 1

(***************************************************************************)
(* C16 as stated: the store is written once.  Once it holds an access      *)
(* token, no step of any operation, a further authorize_once included,     *)
(* changes the stored access token or refresh token (the end of the object *)
(* in a panic aside).                                                      *)
(***************************************************************************)
C16_StoreWrittenOnce ==
    [][(IsSome(access_token) /\ phase' # "panicked")
         => (access_token' = access_token /\ refresh_token' = refresh_token)]_vars

(***************************************************************************)
(* C17 as stated: a CbClient exists only on a store that holds an access   *)
(* token, and reading the access token for a request never finds the store *)
(* empty.                                                                  *)
(***************************************************************************)
C17_StoreNeverEmptyAtRequest ==
    /\ borrowed => IsSome(access_token)
    /\ panic.op # "access_token"


\* The latest outbound call of the OAuthCbClient.
LastCall == calls[Len(calls)]

\* The token a revocation call names is in the store.
StillStored(call) ==
    IF call.kind = "refresh_token" THEN refresh_token = Some(call.secret)
    ELSE access_token = Some(call.secret)

(***************************************************************************)
(* C18: every revoke_access called on a store that holds a token issues    *)
(* exactly one call to the revocation endpoint, also when that call then   *)
(* fails, and also while another revoke_access or a request of a CbClient  *)
(* is in progress; the call names the stored refresh token when one is     *)
(* stored and the stored access token otherwise.  (On an empty store       *)
(* revoke_access panics in its unwrap before any call.)                    *)
(***************************************************************************)
C18_RevokesRefreshElseAccess ==
    /\ [](/\ Len(revoked) <= Len(RevokeCalls)
          /\ (phase = "revoking") = (phase # "panicked" /\ Len(revoked) < Len(RevokeCalls))
          /\ phase = "panicked" /\ Len(revoked) < Len(RevokeCalls)
                => panic.op \in { "revoke_access", "access_token" }
          /\ phase = "revoking" =>
                /\ LastCall.endpoint = "revoke"
                /\ IF IsSome(refresh_token)
                   THEN /\ LastCall.kind = "refresh_token"
                        /\ LastCall.secret = refresh_token[1]
                   ELSE /\ LastCall.kind = "access_token"
                        /\ LastCall.secret = access_token[1]
          /\ \A i \in 1..Len(revoked) :
                /\ revoked[i].call = RevokeCalls[i]
                /\ IF \E k \in 1..revoked[i].grants : IsSome(granted[k].refresh_token)
                   THEN /\ revoked[i].call.kind = "refresh_token"
                        /\ \E k \in 1..revoked[i].grants :
                              granted[k].refresh_token = Some(revoked[i].call.secret)
                   ELSE /\ revoked[i].call.kind = "access_token"
                        /\ revoked[i].call.secret
                              = granted[revoked[i].grants].access_token)
    /\ [][Len(RevokeCalls') # Len(RevokeCalls) =>
            /\ phase \in { "idle", "revoking" } /\ phase' = "revoking"
            /\ IsSome(refresh_token) \/ IsSome(access_token)
            /\ calls' = Append(calls,
                              [endpoint |-> "revoke",
                               kind |-> IF IsSome(refresh_token) THEN "refresh_token"
                                        ELSE "access_token",
                               secret |-> IF IsSome(refresh_token) THEN refresh_token[1]
                                          ELSE access_token[1]])
            /\ UNCHANGED << access_token, refresh_token, revoked >>]_vars

C18_Witness ==
    /\ Len(revoked) = 1 /\ phase = "idle"
    /\ revoked[1].call.kind = "refresh_token"
    /\ refresh_token = Some(revoked[1].call.secret)
    /\ Len(RevokeCalls) = 1

(***************************************************************************)
(* C19: revoke_access leaves the store as it was.  While it runs and after *)
(* it returned, until a further authorize_once, the store holds the access *)
(* token of the latest grant and the token the revocation named; every     *)
(* request of a CbClient carries the stored access token as its bearer     *)
(* token, after a revocation as before it, and when the access token       *)
(* itself was revoked the request carries that revoked token.              *)
(***************************************************************************)
C19_RevokeLeavesStore ==
    /\ phase = "revoking" => (StoreHoldsLatestGrant /\ StillStored(LastCall))
    /\ \A i \in 1..Len(revoked) :
          (revoked[i].grants = Len(granted) /\ phase # "panicked")
          => (StoreHoldsLatestGrant /\ StillStored(revoked[i].call))
    /\ \A i \in 1..Len(bearers) :
          /\ bearers[i].grants >= 1
          /\ bearers[i].secret = granted[bearers[i].grants].access_token
          /\ (/\ bearers[i].revocations > 0
              /\ revoked[bearers[i].revocations].grants = bearers[i].grants
              /\ revoked[bearers[i].revocations].call.kind = "access_token")
             => bearers[i].secret = revoked[bearers[i].revocations].call.secret

C19_Witness ==
    /\ Len(revoked) = 1 /\ phase = "idle"
    /\ revoked[1].call.kind = "access_token"
    /\ access_token = Some(revoked[1].call.secret)
    /\ Len(bearers) = 1 /\ bearers[1].revocations = 1
    /\ bearers[1].secret = revoked[1].call.secret

\* The ways the operations of the flow end in a panic.
FailureModes ==
    { [op |-> "new", cause |-> "Invalid redirect_url"],
      [op |-> "add_scope", cause |-> "assertion failed"],
      [op |-> "authorize_once", cause |-> "redirect URL without host or port"],
      [op |-> "authorize_once", cause |-> "bind failed"],
      [op |-> "authorize_once", cause |-> "read_line failed"],
      [op |-> "authorize_once", cause |-> "request line has no target"],
      [op |-> "authorize_once", cause |-> "Url::parse failed"],
      [op |-> "authorize_once", cause |-> "no code"],
      [op |-> "authorize_once", cause |-> "no state"],
      [op |-> "authorize_once", cause |-> "write_all failed"],
      [op |-> "authorize_once", cause |-> "state is not csrf_state"],
      [op |-> "authorize_once", cause |-> "token exchange failed"],
      [op |-> "revoke_access", cause |-> "unwrap on an empty store"],
      [op |-> "revoke_access", cause |-> "Failed to revoke token"],
      [op |-> "access_token", cause |-> "unwrap on an empty store"] }

(***************************************************************************)
(* C20 as stated: construction, adding a scope and revoking never fail.    *)
(***************************************************************************)
C20_OnlyAuthorizationFails == panic.op \notin { "new", "add_scope", "revoke_access" }

(***************************************************************************)
(* C20, amended: every transition of the flow can fail, each by a panic    *)
(* that ends the object: construction on a redirect URL that does not      *)
(* parse, add_scope on a scope outside VALID_SCOPES, authorize_once before *)
(* it listens (redirect URL whose Url::port is None, listener not bound)   *)
(* and after (unusable callback, answer not written, state mismatch,       *)
(* failed exchange), revoke_access on an empty store or a failed           *)
(* revocation.  These are the only failures: an object that exists was     *)
(* built from a URL that parses and holds only valid scopes, a listener is *)
(* bound only on a URL with a port, a failed revocation follows a call to  *)
(* the revocation endpoint that had no answer yet.                         *)
(***************************************************************************)
C20_FailingTransitions ==
    /\ phase = "panicked" <=> panic # NoPanic
    /\ panic = NoPanic \/ panic \in FailureModes
    /\ scopes \subseteq VALID_SCOPES
    /\ phase \notin { "unbuilt", "panicked" } => IsSome(redirect)
    /\ phase \in { "listening", "exchanging" } =>
          (IsSome(redirect[1].host) /\ IsSome(redirect[1].port))
    /\ panic.op = "new" => (calls = << >> /\ authorizations = 0)
    /\ panic = [op |-> "revoke_access", cause |-> "Failed to revoke token"] =>
          (LastCall.endpoint = "revoke" /\ Len(RevokeCalls) > Len(revoked))
    /\ panic = [op |-> "revoke_access", cause |-> "unwrap on an empty store"] =>
          granted = << >>
    /\ panic = [op |-> "authorize_once", cause |-> "state is not csrf_state"] =>
          (HasCodeAndState(Len(callbacks)) /\ ~Matching(Len(callbacks)))

C20_Witness ==
    /\ panic = [op |-> "revoke_access", cause |-> "Failed to revoke token"]
    /\ Len(granted) = 1
    /\ Len(RevokeCalls) = 1 /\ revoked = << >>

(***************************************************************************)
(* C21: add_scope fails (panics) on a scope outside VALID_SCOPES and       *)
(* inserts any other.  The scopes of the object are always whitelisted and *)
(* change only by add_scope inserting one more whitelisted scope; adding a *)
(* scope already held changes nothing; and the authorization URL of an     *)
(* authorize_once names exactly the scopes of the object.                  *)
(***************************************************************************)
C21_ScopesWhitelistedAndSent ==
    /\ [](/\ scopes \subseteq VALID_SCOPES
          /\ IsSome(authorize_url) =>
                (authorize_url[1].scope = scopes /\ authorize_url[1].state = csrf_state[1])
          /\ phase \in { "listening", "exchanging" } => IsSome(authorize_url)
          /\ (phase = "idle" /\ owned) =>
                /\ \A d \in ScopeDescriptions \cap VALID_SCOPES :
                      ENABLED (AddScope /\ scopes' = scopes \cup { d } /\ phase' = "idle")
                /\ ENABLED (AddScope /\ panic'.op = "add_scope"))
    /\ [][/\ (scopes' # scopes /\ phase' # "panicked") =>
                /\ phase = "idle" /\ phase' = "idle"
                /\ \E d \in VALID_SCOPES \ scopes : scopes' = scopes \cup { d }
          /\ (panic'.op = "add_scope" /\ panic = NoPanic) => (phase = "idle" /\ owned)]_vars

C21_Witness ==
    /\ phase = "listening"
    /\ scopes = { "wallet:accounts:read", "wallet:user:read" }
    /\ authorize_url[1].scope = scopes
    /\ authorizations = 2

(***************************************************************************)
(* C22 as stated: an OAuthCbClient exists only with a redirect URL that    *)
(* has a host and a port, so authorize_once never starts, and never fails, *)
(* on a redirect URL without host or port.                                 *)
(***************************************************************************)
C22_RedirectValidatedAtConstruction ==
    /\ IsSome(redirect) => (IsSome(redirect[1].host) /\ IsSome(redirect[1].port))
    /\ panic # [op |-> "authorize_once", cause |-> "redirect URL without host or port"]

(***************************************************************************)
(* C29 as stated: the stored refresh token, if any, was issued by the      *)
(* token response that issued the stored access token, so the token        *)
(* revoke_access names belongs to the latest granted authorization.        *)
(***************************************************************************)
C29_RevokedTokenOfLatestGrant ==
    /\ (IsSome(refresh_token) /\ Len(granted) > 0) =>
          refresh_token = granted[Len(granted)].refresh_token
    /\ phase = "revoking" =>
          LastCall.secret \in { granted[Len(granted)].access_token }
                              \cup Range(granted[Len(granted)].refresh_token)


(***************************************************************************)
(* Vocabulary of the properties of the request URIs.                       *)
(***************************************************************************)
\* The pairs of a query other than the cursor's, in order.
RECURSIVE WithoutCursor(_)
WithoutCursor(query) ==
    IF query = << >> THEN << >>
    ELSE IF Head(query)[1] = "cursor" THEN WithoutCursor(Tail(query))
    ELSE << Head(query) >> \o WithoutCursor(Tail(query))

\* The number of values a call gives under the named parameters: one for a
\* parameter that is Some, one per element for a list.
RECURSIVE ValuesGiven(_, _)
ValuesGiven(a, fields) ==
    IF fields = {} THEN 0
    ELSE LET f == CHOOSE x \in fields : TRUE
         IN (IF ~IsSome(a[f]) THEN 0
             ELSE IF f \in { "order_status", "product_ids" } THEN Len(a[f][1])
             ELSE 1)
            + ValuesGiven(a, fields \ { f })

(***************************************************************************)
(* C27: within one stream every request goes to the same path and carries  *)
(* the same pairs, in the same order, for all parameters other than the    *)
(* cursor: one pair for each value given at the call (the limit and every  *)
(* filter), from the first request to the last; two requests of a stream   *)
(* differ in the cursor pair at most.                                      *)
(***************************************************************************)
C27_OnlyCursorChanges ==
    \A i \in 1..Len(requests) :
       /\ requests[i].path = requests[1].path
       /\ WithoutCursor(requests[i].query) = WithoutCursor(requests[1].query)
       /\ Len(WithoutCursor(requests[i].query))
             = ValuesGiven(args, DOMAIN args \ { "cursor" })
       /\ Len(requests[i].query) - Len(WithoutCursor(requests[i].query))
             = IF i = 1 THEN Len(args.cursor) ELSE 1

C27_Witness ==
    /\ endpoint = "orders"
    /\ IsSome(args.order_status) /\ IsSome(args.start_date)
    /\ Len(requests) = 3
    /\ CursorParam(1) # CursorParam(2) /\ CursorParam(2) # CursorParam(3)
    /\ Len(WithoutCursor(requests[3].query)) = 11


\* The query a call that has returned put in its URI.
QueryBuilt == output[1].uri.query

Digits == "0123456789"

\* A text of the form YYYY-MM-DDTHH:MM:SSZ.
IsRfc3339Secs(text) ==
    /\ Len(text) = 20
    /\ \A i \in 1..20 :
          CASE i \in { 5, 8 } -> CharAt(text, i) = "-"
            [] i = 11 -> CharAt(text, i) = "T"
            [] i \in { 14, 17 } -> CharAt(text, i) = ":"
            [] i = 20 -> CharAt(text, i) = "Z"
            [] OTHER -> IndexIn(Digits, CharAt(text, i)) > 0

\* The datetime-valued parameters of an operation.
DateTimeParams(o) ==
    IF o = "get_list_fills_uri"
    THEN { "start_sequence_timestamp", "end_sequence_timestamp" }
    ELSE { "start_date", "end_date" }

(***************************************************************************)
(* C23 as stated: in the URIs of list_orders, list_fills and               *)
(* get_transactions_summary every datetime parameter given is one pair     *)
(* whose value is RFC3339 with seconds precision; a parameter that is      *)
(* absent has no pair under its key; a list parameter has one pair per     *)
(* element under its key, in the order of the list.                        *)
(***************************************************************************)
C23_DatetimesAreRfc3339 ==
    (operation \in { "get_list_orders_uri", "get_list_fills_uri",
                     "get_transactions_summary" } /\ output # None)
    => LET a == input.args IN
       /\ \A k \in DateTimeParams(operation) :
             IsSome(a[k]) =>
                /\ Len(ValuesOf(QueryBuilt, k)) = 1
                /\ IsRfc3339Secs(ValuesOf(QueryBuilt, k)[1])
                /\ SubSeq(ValuesOf(QueryBuilt, k)[1], 1, 4) = NatToString(a[k][1].year)
                /\ SubSeq(ValuesOf(QueryBuilt, k)[1], 18, 19) = Pad(a[k][1].second, 2)
       /\ \A k \in DOMAIN a : ~IsSome(a[k]) => ValuesOf(QueryBuilt, k) = << >>
       /\ operation = "get_list_orders_uri" /\ IsSome(a.order_status) =>
             ValuesOf(QueryBuilt, "order_status")
                = [i \in 1..Len(a.order_status[1]) |->
                      enum_to_string("Status", a.order_status[1][i])]

(***************************************************************************)
(* C30 as stated: every optional filter given to list_orders is sent under *)
(* the key equal to its parameter name, and contract_expiry_type is sent   *)
(* under the key contract_expiry_type by list_orders, list_products and    *)
(* get_transactions_summary alike.                                         *)
(***************************************************************************)
C30_FiltersUnderTheirNames ==
    (operation \in { "get_list_orders_uri", "list_products",
                     "get_transactions_summary" } /\ output # None)
    => LET a == input.args IN
       \A k \in IF operation = "get_list_orders_uri" THEN DOMAIN a
                ELSE { "contract_expiry_type" } :
          Len(ValuesOf(QueryBuilt, k)) = ValuesGiven(a, { k })

(***************************************************************************)
(* Vocabulary of the properties of the decoders.                           *)
(***************************************************************************)
\* The ways a body says that it has no data for a member.
NoData == { Missing, JsonNull, JsonString("") }

\* The strings followed that are decimals.
Decimals == { JsonString("6"), JsonString("-99.4") }

(***************************************************************************)
(* C24 as stated: a Product body in which each of price,                   *)
(* price_percentage_change_24h, volume_24h and volume_percentage_change_24h*)
(* is missing, null, the empty string or a valid decimal string is read    *)
(* without failing the Product, each of the four into None when the body   *)
(* has no data for it and into Some(the decimal) otherwise.                *)
(***************************************************************************)
C24_NoDataIsNone ==
    (/\ operation = "get_product" /\ output # None
     /\ input.outcome.kind = "body"
     /\ input.outcome.text \in ProductBodies
     /\ \A i \in 1..Len(StableDecimals) :
           input.outcome.text[StableDecimals[i]] \in NoData \cup Decimals)
    => /\ IsOk(output[1].result)
       /\ \A i \in 1..Len(StableDecimals) :
             LET value == input.outcome.text[StableDecimals[i]] IN
             output[1].result.val[StableDecimals[i]]
                = IF value \in NoData THEN None
                  ELSE Some(BigDecimal_from_str(value.text).val)

\* A text in SCREAMING_SNAKE_CASE: words of upper-case letters separated by
\* single underscores.
IsScreamingSnake(text) ==
    /\ Len(text) > 0
    /\ \A i \in 1..Len(text) :
          \/ is_uppercase(CharAt(text, i))
          \/ /\ CharAt(text, i) = "_"
             /\ 1 < i /\ i < Len(text)
             /\ CharAt(text, i + 1) # "_"

\* The letters of a text in lower case, its underscores left out.
RECURSIVE LettersOf(_, _)
LettersOf(text, i) ==
    IF i > Len(text) THEN ""
    ELSE (IF CharAt(text, i) = "_" THEN "" ELSE to_ascii_lowercase(CharAt(text, i)))
         \o LettersOf(text, i + 1)

\* The words of a variant's identifier: one per upper-case letter.
WordsOf(text) == Cardinality({ i \in 1..Len(text) : is_uppercase(CharAt(text, i)) })

\* The underscores of a text.
UnderscoresOf(text) == Cardinality({ i \in 1..Len(text) : CharAt(text, i) = "_" })

(***************************************************************************)
(* C25: every variant of the fourteen string-backed enums is written as    *)
(* the SCREAMING_SNAKE_CASE form of its identifier (the words of the       *)
(* identifier in upper case, joined by underscores), STOP_LIMIT for        *)
(* OrderType::StopLimitOrderType, and reading that text into the enum      *)
(* yields the variant again; a text read into an enum yields a variant     *)
(* exactly when it is the written form of that variant.                    *)
(***************************************************************************)
C25_EnumRoundTrip ==
    /\ (operation = "to_string" /\ output # None)
       => /\ IsScreamingSnake(output[1])
          /\ IF input.enum = "OrderType" /\ input.variant = "StopLimitOrderType"
             THEN output[1] = "STOP_LIMIT"
             ELSE /\ LettersOf(output[1], 1) = LettersOf(input.variant, 1)
                  /\ UnderscoresOf(output[1]) = WordsOf(input.variant) - 1
          /\ input.variant = "StopDirectionStopUp" => output[1] = "STOP_DIRECTION_STOP_UP"
          /\ input.variant = "AccountTypeCrypto" => output[1] = "ACCOUNT_TYPE_CRYPTO"
          /\ input.variant = "Filled" => output[1] = "FILLED"
          /\ enum_from_str(input.enum, output[1]) = Ok(input.variant)
    /\ (operation = "from_str" /\ output # None)
       => IF IsOk(output[1])
          THEN /\ Holds(VariantsOf(input.enum), output[1].val)
               /\ enum_to_string(input.enum, output[1].val) = input.text
          ELSE \A i \in 1..Len(VariantsOf(input.enum)) :
                  enum_to_string(input.enum, VariantsOf(input.enum)[i]) # input.text

C25_Witness ==
    /\ operation = "from_str"
    /\ input.enum = "OrderType"
    /\ input.text = enum_to_string("OrderType", "StopLimitOrderType")
    /\ output = Some(Ok("StopLimitOrderType"))

(***************************************************************************)
(* C26: the result of get and of post is a function of the body alone: two *)
(* responses with the same body and different statuses give the same       *)
(* result, and a body that parses as the success type is returned as Ok    *)
(* under every status.                                                     *)
(***************************************************************************)
C26_StatusIndependent ==
    (operation \in { "get", "post" } /\ output # None)
    => /\ output[1][1] = output[1][2]
       /\ IsOk(from_str(input.T, input.text))
          => /\ output[1][1] = Ok(from_str(input.T, input.text).val)
             /\ output[1][2] = Ok(from_str(input.T, input.text).val)

C26_Witness ==
    /\ operation = "get"
    /\ input.status = 200 /\ input.other_status = 500
    /\ input.text \in SuccessBodies(input.T)
    /\ output # None
    /\ IsOk(output[1][2])


(***************************************************************************)
(* Vocabulary of the termination of a stream.                              *)
(***************************************************************************)
\* The last outcome received is a page without the stop signal of the
\* endpoint: has_next is true (list_accounts, list_orders), the cursor is
\* not empty (list_fills).
GoesOn ==
    /\ pc = "yielded"
    /\ IF endpoint = "fills" THEN LastText.cursor # "" ELSE LastText.has_next

\* The last outcome received is a page with the stop signal, or a failure.
Stops == pc = "errored" \/ (pc = "yielded" /\ ~GoesOn)

(***************************************************************************)
(* C28: a stream consumed to its end ends exactly after a response that    *)
(* carries the stop signal of its endpoint or after a request that fails.  *)
(* After a page with the stop signal the next demand ends the stream;      *)
(* after a failure the stream has yielded the error, a further demand      *)
(* would end it, and the consumer of the examples panics on the error and  *)
(* drops it; the stream never ends otherwise.  After a page without the    *)
(* stop signal the next demand sends one more request, whatever the number *)
(* of pages so far (below the number of pages the model follows) and also  *)
(* when the page repeats the cursor of the request.  So the stream ends    *)
(* when the server sends the stop signal or a request fails, and while     *)
(* neither happens the stream goes on, one request per demand, up to the   *)
(* last page the model follows.                                            *)
(***************************************************************************)
C28_EndsOnStopSignalOnly ==
    /\ [](pc = "done" => /\ ~GoesOn
                         /\ NReceived >= 1
                         /\ IsOk(yielded[Len(yielded)])
                         /\ IF endpoint = "fills" THEN LastText.cursor = ""
                            ELSE ~LastText.has_next)
    /\ [](pc = "dropped" => NReceived >= 1 /\ ~IsOk(yielded[Len(yielded)]))
    /\ [](pc = "errored" => ENABLED FinishAfterError)
    /\ [](Stops => /\ ~ENABLED Resume
                   /\ ENABLED (ConsumerNext /\ pc' \in { "done", "dropped" }))
    /\ [](GoesOn => /\ ~ENABLED Finish
                    /\ Len(requests) = demands
                    /\ Len(requests) < MaxPages => ENABLED Resume)
    /\ [][Stops => pc' \in { "done", "dropped" }]_vars
    /\ [][GoesOn => /\ pc' = "inflight"
                    /\ Len(requests') = Len(requests) + 1
                    /\ demands' = demands + 1]_vars
    /\ <>(pc \in { "done", "dropped" } \/ (GoesOn /\ Len(requests) = MaxPages))

C28_Witness ==
    /\ endpoint = "fills"
    /\ pc = "done"
    /\ NReceived = 3 /\ Len(requests) = 3 /\ demands = 4
    /\ AllSuccessful
    /\ CursorParam(2) = Some("c1") /\ PageOf(2).cursor = "c1"
    /\ PageOf(3).cursor = ""
=============================================================================
